---- MODULE Spec2Model ----
(***************************************************************************)
(* Provider orchestration engine of market-data: the fallback chain        *)
(* executor (market_data/providers/provider_chain.py) and the shared       *)
(* sliding-window rate limiter (market_data/utils/rate_limiter.py).        *)
(***************************************************************************)
EXTENDS Integers, Sequences, FiniteSets, TLC

(***************************************************************************)
(* Bounds                                                                  *)
(***************************************************************************)
\* longest provider chain explored
MaxChain == 3

\* resolution of the model clock: ticks in the 60-second window
TicksPerMinute == 2

\* the 24-hour window, shortened to this many minutes
DayInMinutes == 2

\* last instant of the model clock
MaxTime == 5

\* largest per-minute and per-day cap a limiter is configured with
MaxCap == 2

\* number of tasks calling acquire concurrently
NumTasks == 2

\* acquire calls made in one behaviour
MaxCalls == 3

\* longest chain explored with two overlapping execute calls
MaxSharedChain == 2

\* longest priority list passed to reorder_by_priority
MaxPriority == 2

\* provider instances the factory creates in one behaviour
MaxInstances == 2

\* longest list of contracts passed to the options filter
MaxContracts == 11

\* dates of an indicator series before its three most recent ones
MaxOlder == 3

\* the most entries an options chain has
MaxExpirations == 3

\* hours the clock of the authentication model runs
MaxHours == 25

(***************************************************************************)
(* Providers.  A provider is identified by its name, which the Provider    *)
(* contract makes unique; the model uses 1..MaxChain as the names.  Every  *)
(* operation of BaseProvider is declared to return a dict.                 *)
(***************************************************************************)
Providers == 1..MaxChain

\* callers of the chain; a sequential client is caller 1 alone
Callers == {1, 2}

Sequential == {1}

\* ProviderCapability, projected on the members a filter call can ask for
ProviderCapability == {"options_chain"}

\* a call made through execute directly has no required capability
NoFilter == "none"

\* What one provider does during one execute call (fixed when the loop
\* reaches the provider, before the call touches it):
\*   no_method       hasattr(provider, method_name) is false
\*   unhealthy       health_check() returns False
\*   health_raises   health_check() raises
\*   op_raises       the operation raises an exception with a message
\*   op_raises_empty the operation raises an exception whose str() is ""
\*                   (e.g. asyncio.TimeoutError())
\*   data            the operation returns a dict carrying data
\*   error_payload   the operation returns a dict carrying "error"
\*                   (FinnhubProvider.get_stock_quote on HTTP errors)
Outcome == {"no_method", "unhealthy", "health_raises", "op_raises",
            "op_raises_empty", "data", "error_payload"}

VARIABLES
    providers,      \* ProviderChain.providers: sequence of provider names
    capabilities,   \* provider name -> set of declared capabilities
    errors,         \* ProviderChain.errors of the chain: insertion-ordered map
    pc,             \* caller -> position inside execute
    run,            \* caller -> provider list of the chain being executed
    isTemp,         \* caller -> TRUE when executing the transient sub-chain
    required,       \* caller -> required_capability of the call, or NoFilter
    tempErrors,     \* caller -> errors map of the transient sub-chain
    i,              \* caller -> loop index (0-based, as enumerate gives it)
    outcome,        \* caller -> what each provider reached so far does in this call
    healthCalls,    \* caller -> provider -> health_check invocations this call
    opCalls,        \* caller -> provider -> operation invocations this call
    delays,         \* caller -> number of asyncio.sleep(0.1) taken this call
    result          \* caller -> what the call returned

chainVars == <<providers, capabilities, errors, pc, run, isTemp, required, tempErrors, i,
               outcome, healthCalls, opCalls, delays, result>>

VARIABLES
    time,             \* datetime.now(), in ticks
    config,           \* source -> RateLimitConfig of its ProviderRateLimiter
    minute_requests,  \* source -> deque of admission timestamps (minute window)
    daily_requests,   \* source -> deque of admission timestamps (daily window)
    lock,             \* source -> task holding ProviderRateLimiter._lock, 0 if free
    tpc,              \* task -> position inside acquire
    tsource,          \* task -> source the task is acquiring
    ttimeout,         \* task -> timeout argument
    twake,            \* task -> instant asyncio.sleep(wait_time) is over
    tresult,          \* task -> what acquire returned, and by which path
    calls             \* acquire calls made so far

limiterVars == <<time, config, minute_requests, daily_requests, lock, tpc, tsource,
                 ttimeout, twake, tresult, calls>>

VARIABLES
    priority_order,   \* argument of the last reorder_by_priority call
    spc,              \* position inside get_chain_status
    probes,           \* what the health_check of each provider probed so far did
    status,           \* get_chain_status: the local dict `status`, insertion-ordered
    statusResult      \* what get_chain_status returned

adminVars == <<priority_order, spc, probes, status, statusResult>>

VARIABLES
    instance,           \* SharedRateLimiter._instance: an object identity, 0 for None
    initialized,        \* _initialized of that object
    rate_limiter,       \* the module global _rate_limiter
    provider_limiters,  \* names having a ProviderRateLimiter in provider_limiters
    shared_call         \* the last constructor / get_rate_limiter / register_provider
                        \* call on the shared limiter and the object it returned

sharedVars == <<instance, initialized, rate_limiter, provider_limiters, shared_call>>

VARIABLES
    factory_providers,  \* ProviderFactory._providers: name -> registered class
    factory_instances,  \* ProviderFactory._instances: name -> cached instance
    created,            \* provider instances constructed so far
    factory_call        \* the last ProviderFactory call and how it ended

factoryVars == <<factory_providers, factory_instances, created, factory_call>>

VARIABLES
    options,               \* the list object passed to _filter_professional_options
    options_before,        \* what that list held when the call was made
    current_price,         \* the call's current_price
    option_type,           \* the call's option_type
    professional_options,  \* the list the call returned
    fpc,                   \* "ready" before the call, "returned" after it
    raw_data,              \* the provider result passed to an indicator optimizer:
                           \* whether it has "data", and the indicator series,
                           \* oldest date first
    current_analysis,      \* current_analysis of the dict the optimizer returned
    apc                    \* "ready", then "analysed", or "raw" when raw_data
                           \* was returned as it is

curatorVars == <<options, options_before, current_price, option_type,
                 professional_options, fpc, raw_data, current_analysis, apc>>

VARIABLES
    limit_status      \* the dict the last ProviderRateLimiter.get_status call returned

reportVars == <<limit_status>>

VARIABLES
    raw_options,       \* the options chain passed to optimize_options_data
    max_expirations,   \* the max_expirations of that call
    optimized,         \* data.expirations of the dict it returned, in dict order
    opc                \* "ready" before the call, then "optimized", or "raw"
                       \* when raw_data was returned as it is

optimizerVars == <<raw_options, max_expirations, optimized, opc>>

VARIABLES
    authenticated,      \* RobinhoodProvider._authenticated
    auth_timestamp,     \* RobinhoodProvider._auth_timestamp, in hours, or None
    auth_retry_count,   \* RobinhoodProvider._auth_retry_count
    attempt,            \* the loop variable of _authenticate_with_retry
    login_calls,        \* self.auth.login() calls made by the current call
    auth_pc,            \* position inside ensure_authenticated
    hours               \* datetime.now(), in hours

authVars == <<authenticated, auth_timestamp, auth_retry_count, attempt, login_calls,
              auth_pc, hours>>

VARIABLES
    kept_errors,   \* entries of provider_errors when the caller got the result
    kept_object    \* the dict that result["provider_errors"] is

keptVars == <<kept_errors, kept_object>>

VARIABLES
    last_created   \* name -> what the latest create_provider for it returned

recallVars == <<last_created>>

vars == <<chainVars, limiterVars, adminVars, sharedVars, factoryVars, curatorVars,
         reportVars,
         optimizerVars,
         authVars,
         keptVars,
         recallVars>>

(***************************************************************************)
(* Python dict with insertion order: a sequence of [name, reason] entries  *)
(* holding each key once.                                                  *)
(***************************************************************************)
RECURSIVE DictHas(_, _)
DictHas(d, k) ==
    IF d = <<>> THEN FALSE
    ELSE IF Head(d).name = k THEN TRUE ELSE DictHas(Tail(d), k)

\* d[k] = v : replaces the value in place when k is present, appends otherwise
DictSet(d, k, v) ==
    IF DictHas(d, k)
    THEN [j \in 1..Len(d) |-> IF d[j].name = k THEN [name |-> k, reason |-> v] ELSE d[j]]
    ELSE Append(d, [name |-> k, reason |-> v])

\* list(d.keys())
DictKeys(d) == [j \in 1..Len(d) |-> d[j].name]

(***************************************************************************)
(* Messages                                                                *)
(***************************************************************************)
\* f"Method {method_name} not supported"
NotSupportedMsg == "Method get_stock_quote not supported"

HealthFailedMsg == "Provider health check failed"

\* str(e) of the exception a provider raised
ExceptionStr(o) ==
    CASE o = "health_raises" -> "Robinhood authentication failed after 3 attempts"
      [] o = "op_raises" -> "Rate limit timeout for robinhood"
      [] o = "op_raises_empty" -> ""
      [] OTHER -> ""

(***************************************************************************)
(* Results: a returned dict is modelled by the set of its keys and the     *)
(* values the orchestration code reads or writes.                          *)
(***************************************************************************)
NoResult ==
    [keys |-> {}, provider |-> 0, fallback_used |-> FALSE, failed_providers |-> <<>>,
     error |-> "", provider_errors |-> <<>>, total_providers |-> 0]

\* the dict a provider operation returns
Payload(o) ==
    IF o = "data"
    THEN [NoResult EXCEPT !.keys = {"symbol", "data"}]
    ELSE [NoResult EXCEPT !.keys = {"error", "details"}, !.error = "HTTP 500"]

\* off by one: the second provider still counts as the primary
FallbackUsedOffByOne(idx) == idx > 1

\* result["fallback_used"] = i > 0
FallbackUsed(idx) == idx > 0

\* the names in reverse order of attempt
FailedProvidersReversed(errs) == [j \in 1..Len(errs) |-> errs[Len(errs) - j + 1].name]

\* result["failed_providers"] = list(self.errors.keys())
FailedProviders(errs) == DictKeys(errs)

\* the success attributed to the first provider that was tried
WithMetadataFirstTried(payload, name, idx, errs) ==
    [payload EXCEPT
        !.keys = payload.keys \cup {"provider", "fallback_used"}
                    \cup (IF idx > 0 THEN {"failed_providers"} ELSE {}),
        !.provider = IF idx > 0 THEN errs[1].name ELSE name,
        !.fallback_used = FallbackUsed(idx),
        !.failed_providers = IF idx > 0 THEN FailedProviders(errs) ELSE <<>>]

\* lines 40-44: metadata added to the dict the operation returned
WithMetadata(payload, name, idx, errs) ==
    [payload EXCEPT
        !.keys = payload.keys \cup {"provider", "fallback_used"}
                    \cup (IF idx > 0 THEN {"failed_providers"} ELSE {}),
        !.provider = name,
        !.fallback_used = FallbackUsed(idx),
        !.failed_providers = IF idx > 0 THEN FailedProviders(errs) ELSE <<>>]

\* lines 62-67: the aggregate failure
AllFailedResult(errs, chain) ==
    [NoResult EXCEPT
        !.keys = {"error", "method", "provider_errors", "total_providers"},
        !.error = "All providers in chain failed",
        !.provider_errors = errs,
        !.total_providers = Len(chain)]

\* the reason execute records for a provider that did not return
FailureReason(o) ==
    CASE o = "no_method" -> NotSupportedMsg
      [] o = "unhealthy" -> HealthFailedMsg
      [] OTHER -> ExceptionStr(o)

\* execute run to completion on `chain` (errors map cleared at entry), as a
\* function of what the providers do: outs[k] is what the k-th provider does
RECURSIVE ExecuteFrom(_, _, _, _)
ExecuteFrom(chain, outs, k, errs) ==
    IF k > Len(chain) \/ k > Len(outs)
    THEN AllFailedResult(errs, chain)
    ELSE IF outs[k] \in {"data", "error_payload"}
    THEN WithMetadata(Payload(outs[k]), chain[k], k - 1, errs)
    ELSE ExecuteFrom(chain, outs, k + 1, DictSet(errs, chain[k], FailureReason(outs[k])))

ExecuteResult(chain, outs) == ExecuteFrom(chain, outs, 1, <<>>)

\* lines 83-87
NoCapableResult ==
    [NoResult EXCEPT
        !.keys = {"error", "method", "available_providers"},
        !.error = "No providers support capability"]

(***************************************************************************)
(* BaseProvider.supports_capability and the capability filter              *)
(***************************************************************************)
SupportsCapability(p, cap) == cap \in capabilities[p]

\* the capable providers in reverse chain order
CapableProvidersReversed(cap) ==
    LET kept == SelectSeq(providers, LAMBDA p : SupportsCapability(p, cap))
    IN  [j \in 1..Len(kept) |-> kept[Len(kept) - j + 1]]

\* the filter left out: every provider of the chain is kept
CapableProvidersUnfiltered(cap) == providers

\* lines 77-80: the providers declaring the capability, in chain order
CapableProviders(cap) == SelectSeq(providers, LAMBDA p : SupportsCapability(p, cap))

(***************************************************************************)
(* ProviderChain.reorder_by_priority                                       *)
(***************************************************************************)
RECURSIVE SeqHas(_, _)
SeqHas(q, x) == IF q = <<>> THEN FALSE ELSE IF Head(q) = x THEN TRUE ELSE SeqHas(Tail(q), x)

\* line 125: {p.name: p for p in self.providers}, as the sequence of its
\* keys (a name occurring twice keeps its first position)
RECURSIVE ProviderMap(_)
ProviderMap(chain) ==
    IF chain = <<>> THEN <<>>
    ELSE LET front == ProviderMap(SubSeq(chain, 1, Len(chain) - 1))
             last == chain[Len(chain)]
         IN  IF SeqHas(front, last) THEN front ELSE Append(front, last)

\* del provider_map[name]
DictDel(map, name) == SelectSeq(map, LAMBDA k : k # name)

\* lines 129-135: the loop over priority_order, then the remaining values
RECURSIVE ReorderLoop(_, _, _)
ReorderLoop(names, map, reordered) ==
    IF names = <<>> THEN reordered \o map
    ELSE IF SeqHas(map, Head(names))
    THEN ReorderLoop(Tail(names), DictDel(map, Head(names)), Append(reordered, Head(names)))
    ELSE ReorderLoop(Tail(names), map, reordered)

\* the entry not deleted from provider_map once it was moved
ReorderedWithoutDelete(chain, names) ==
    SelectSeq(names, LAMBDA n : SeqHas(chain, n)) \o ProviderMap(chain)

\* the new value of self.providers
Reordered(chain, names) == ReorderLoop(names, ProviderMap(chain), <<>>)

\* names a client may put in a priority list: those of the providers and
\* one that no provider has
PriorityNames == 1..(MaxChain + 1)

RECURSIVE SeqsUpTo(_, _)
SeqsUpTo(S, n) ==
    IF n = 0 THEN {<<>>}
    ELSE SeqsUpTo(S, n - 1) \cup {Append(q, x) : q \in SeqsUpTo(S, n - 1), x \in S}

PriorityLists == SeqsUpTo(PriorityNames, MaxPriority)

\* reorder_by_priority(priority_order), lines 123-137
ReorderByPriority(names) ==
    /\ providers' = Reordered(providers, names)
    /\ priority_order' = names
    /\ UNCHANGED <<capabilities, errors, pc, run, isTemp, required, tempErrors, i, outcome,
                   healthCalls, opCalls, delays, result>>
    /\ UNCHANGED <<spc, probes, status, statusResult>>

(***************************************************************************)
(* ProviderChain.get_chain_status                                          *)
(***************************************************************************)
\* what the health_check of one provider does when probed
ProbeOutcome == {"healthy", "unhealthy", "raises"}

NoStatusResult == [keys |-> {}, total_providers |-> 0, healthy_providers |-> 0]

\* a raising probe entered as healthy
ProbeHealthyUnlessFalse(o) == o # "unhealthy"

\* the "healthy" entry of status[provider.name]: is_healthy when the probe
\* returned (line 101), False when it raised (line 107)
ProbeHealthy(o) == o = "healthy"

\* `except Exception` (line 105) catches what the probe raises
Caught(o) == o = "raises"

\* status[name] = {...}: replaces the entry when the name is present
StatusSet(d, name, entry) ==
    IF \E j \in 1..Len(d) : d[j].name = name
    THEN [j \in 1..Len(d) |-> IF d[j].name = name THEN entry ELSE d[j]]
    ELSE Append(d, entry)

\* line 116: sum(1 for s in status.values() if s.get("healthy", False))
HealthyCount(d) == Cardinality({j \in 1..Len(d) : d[j].healthy})

\* get_chain_status is called: status = {}
GetChainStatus ==
    /\ spc = "idle"
    /\ spc' = "probing"
    /\ probes' = <<>>
    /\ status' = <<>>
    /\ statusResult' = NoStatusResult
    /\ UNCHANGED priority_order
    /\ UNCHANGED chainVars

\* lines 97-111: one iteration of the loop, `await provider.health_check()`
Probe ==
    /\ spc = "probing"
    /\ Len(probes) < Len(providers)
    /\ \E o \in ProbeOutcome :
          LET p == providers[Len(probes) + 1] IN
          /\ probes' = Append(probes, o)
          /\ IF o = "raises" /\ ~Caught(o)
             THEN /\ spc' = "raised"
                  /\ UNCHANGED status
             ELSE /\ spc' = "probing"
                  /\ status' = StatusSet(status, p,
                                   [name |-> p,
                                    healthy |-> ProbeHealthy(o),
                                    error |-> IF o = "raises" THEN "probe failed" ELSE "",
                                    capabilities |-> IF o = "raises" THEN {} ELSE capabilities[p]])
    /\ UNCHANGED <<priority_order, statusResult>>
    /\ UNCHANGED chainVars

\* lines 113-117: the aggregate is returned
StatusReturn ==
    /\ spc = "probing"
    /\ Len(probes) = Len(providers)
    /\ statusResult' = [keys |-> {"chain_status", "total_providers", "healthy_providers"},
                        total_providers |-> Len(providers),
                        healthy_providers |-> HealthyCount(status)]
    /\ spc' = "done"
    /\ UNCHANGED <<priority_order, probes, status>>
    /\ UNCHANGED chainVars

\* the caller has the aggregate; the locals of the call are gone
StatusDone ==
    /\ spc = "done"
    /\ spc' = "idle"
    /\ probes' = <<>>
    /\ status' = <<>>
    /\ statusResult' = NoStatusResult
    /\ UNCHANGED priority_order
    /\ UNCHANGED chainVars

(***************************************************************************)
(* Initial state: a chain of distinct providers, each with a fixed         *)
(* capability set; no call in progress.                                    *)
(***************************************************************************)
ChainInit ==
    /\ \E n \in 0..MaxChain : providers = [j \in 1..n |-> j]
    /\ capabilities \in [Providers -> SUBSET ProviderCapability]
    /\ errors = <<>>
    /\ pc = [c \in Callers |-> "idle"]
    /\ run = [c \in Callers |-> <<>>]
    /\ isTemp = [c \in Callers |-> FALSE]
    /\ required = [c \in Callers |-> NoFilter]
    /\ tempErrors = [c \in Callers |-> <<>>]
    /\ i = [c \in Callers |-> 0]
    /\ outcome = [c \in Callers |-> <<>>]
    /\ healthCalls = [c \in Callers |-> [p \in Providers |-> 0]]
    /\ opCalls = [c \in Callers |-> [p \in Providers |-> 0]]
    /\ delays = [c \in Callers |-> 0]
    /\ result = [c \in Callers |-> NoResult]

\* the errors map of the chain caller c is executing
Errs(c) == IF isTemp[c] THEN tempErrors[c] ELSE errors

\* self.errors[provider.name] = reason, on the chain caller c is executing
RecordError(c, name, reason) ==
    IF isTemp[c]
    THEN /\ tempErrors' = [tempErrors EXCEPT ![c] = DictSet(tempErrors[c], name, reason)]
         /\ UNCHANGED errors
    ELSE /\ errors' = DictSet(errors, name, reason)
         /\ UNCHANGED tempErrors

\* the provider the loop is at
Current(c) == run[c][i[c] + 1]

\* state of a call that has just entered execute on chain `chain`
Enter(c, chain, temp) ==
    /\ run' = [run EXCEPT ![c] = chain]
    /\ isTemp' = [isTemp EXCEPT ![c] = temp]
    /\ i' = [i EXCEPT ![c] = 0]
    /\ IF chain = <<>>
       THEN outcome' = [outcome EXCEPT ![c] = <<>>]
       ELSE \E o \in Outcome : outcome' = [outcome EXCEPT ![c] = <<o>>]
    /\ healthCalls' = [healthCalls EXCEPT ![c] = [p \in Providers |-> 0]]
    /\ opCalls' = [opCalls EXCEPT ![c] = [p \in Providers |-> 0]]
    /\ delays' = [delays EXCEPT ![c] = 0]
    /\ result' = [result EXCEPT ![c] = NoResult]
    /\ pc' = [pc EXCEPT ![c] = "loop"]

\* execute, line 20: self.errors.clear(), then the loop starts
Execute(c) ==
    /\ pc[c] = "idle"
    /\ errors' = <<>>
    /\ required' = [required EXCEPT ![c] = NoFilter]
    /\ Enter(c, providers, FALSE)
    /\ UNCHANGED <<providers, capabilities, tempErrors>>

\* execute_with_capability_filter, lines 77-91
ExecuteWithCapabilityFilter(c, cap) ==
    /\ pc[c] = "idle"
    /\ required' = [required EXCEPT ![c] = cap]
    /\ IF CapableProviders(cap) = <<>>
       THEN /\ result' = [result EXCEPT ![c] = NoCapableResult]
            /\ pc' = [pc EXCEPT ![c] = "done"]
            /\ run' = [run EXCEPT ![c] = <<>>]
            /\ isTemp' = [isTemp EXCEPT ![c] = TRUE]
            /\ i' = [i EXCEPT ![c] = 0]
            /\ outcome' = [outcome EXCEPT ![c] = <<>>]
            /\ healthCalls' = [healthCalls EXCEPT ![c] = [p \in Providers |-> 0]]
            /\ opCalls' = [opCalls EXCEPT ![c] = [p \in Providers |-> 0]]
            /\ delays' = [delays EXCEPT ![c] = 0]
            /\ UNCHANGED tempErrors
       ELSE \* ProviderChain(capable_providers).execute(...): a fresh errors map
            /\ tempErrors' = [tempErrors EXCEPT ![c] = <<>>]
            /\ Enter(c, CapableProviders(cap), TRUE)
    /\ UNCHANGED <<providers, capabilities, errors>>

\* `continue`: next iteration of the for loop
Continue(c) ==
    /\ i' = [i EXCEPT ![c] = i[c] + 1]
    /\ pc' = [pc EXCEPT ![c] = "loop"]
    /\ IF i[c] + 1 < Len(run[c])
       THEN \E o \in Outcome : outcome' = [outcome EXCEPT ![c] = Append(@, o)]
       ELSE UNCHANGED outcome

\* the except branch without the test for the last provider: the delay is
\* taken after every exception
HandleExceptionThenDelay(c, msg) ==
    /\ RecordError(c, Current(c), msg)
    /\ pc' = [pc EXCEPT ![c] = "sleep"]
    /\ UNCHANGED i

\* lines 49-59: the except branch
HandleException(c, msg) ==
    /\ RecordError(c, Current(c), msg)
    /\ IF i[c] = Len(run[c]) - 1
       THEN /\ pc' = [pc EXCEPT ![c] = "exhausted"]   \* break
            /\ UNCHANGED i
       ELSE /\ pc' = [pc EXCEPT ![c] = "sleep"]
            /\ UNCHANGED i

\* lines 25-27: provider without the method
Unsupported(c) ==
    /\ pc[c] = "loop"
    /\ i[c] < Len(run[c])
    /\ outcome[c][i[c] + 1] = "no_method"
    /\ RecordError(c, Current(c), NotSupportedMsg)
    /\ Continue(c)
    /\ UNCHANGED <<providers, capabilities, run, isTemp, required, healthCalls,
                   opCalls, delays, result>>

\* the result of health_check() ignored
HealthPassedAlways(o) == TRUE

\* health_check() returned True
HealthPassed(o) == o \in {"op_raises", "op_raises_empty", "data", "error_payload"}

\* lines 30-32: await provider.health_check()
HealthCheck(c) ==
    /\ pc[c] = "loop"
    /\ i[c] < Len(run[c])
    /\ outcome[c][i[c] + 1] # "no_method"
    /\ healthCalls' = [healthCalls EXCEPT ![c][Current(c)] = @ + 1]
    /\ LET o == outcome[c][i[c] + 1] IN
       IF o = "health_raises"
       THEN /\ HandleException(c, ExceptionStr(o))
            /\ UNCHANGED outcome
       ELSE IF HealthPassed(o)
       THEN /\ pc' = [pc EXCEPT ![c] = "call"]
            /\ UNCHANGED <<i, errors, tempErrors, outcome>>
       ELSE /\ RecordError(c, Current(c), HealthFailedMsg)
            /\ Continue(c)
    /\ UNCHANGED <<providers, capabilities, run, isTemp, required, opCalls, delays,
                   result>>

\* lines 36-47: await method(*args, **kwargs), metadata, return
CallOperation(c) ==
    /\ pc[c] = "call"
    /\ opCalls' = [opCalls EXCEPT ![c][Current(c)] = @ + 1]
    /\ LET o == outcome[c][i[c] + 1] IN
       IF o \in {"op_raises", "op_raises_empty"}
       THEN /\ HandleException(c, ExceptionStr(o))
            /\ UNCHANGED result
       ELSE /\ result' = [result EXCEPT
                             ![c] = WithMetadata(Payload(o), Current(c), i[c], Errs(c))]
            /\ pc' = [pc EXCEPT ![c] = "done"]
            /\ UNCHANGED <<i, errors, tempErrors>>
    /\ UNCHANGED <<providers, capabilities, run, isTemp, required, outcome, healthCalls, delays>>

\* line 59: await asyncio.sleep(0.1), then the next iteration
InterAttemptDelay(c) ==
    /\ pc[c] = "sleep"
    /\ delays' = [delays EXCEPT ![c] = @ + 1]
    /\ Continue(c)
    /\ UNCHANGED <<providers, capabilities, errors, run, isTemp, required, tempErrors,
                   healthCalls, opCalls, result>>

\* lines 61-67: the loop ended (exhausted or left by break) without a return
AllProvidersFailed(c) ==
    /\ \/ pc[c] = "loop" /\ i[c] >= Len(run[c])
       \/ pc[c] = "exhausted"
    /\ result' = [result EXCEPT ![c] = AllFailedResult(Errs(c), run[c])]
    /\ pc' = [pc EXCEPT ![c] = "done"]
    /\ UNCHANGED <<providers, capabilities, errors, run, isTemp, required, tempErrors, i, outcome,
                   healthCalls, opCalls, delays>>

\* the caller has its result; the locals of the call are gone and the
\* caller may call again (self.errors of the chain stays as the call left it)
Return(c) ==
    /\ pc[c] = "done"
    /\ pc' = [pc EXCEPT ![c] = "idle"]
    /\ run' = [run EXCEPT ![c] = <<>>]
    /\ isTemp' = [isTemp EXCEPT ![c] = FALSE]
    /\ required' = [required EXCEPT ![c] = NoFilter]
    /\ tempErrors' = [tempErrors EXCEPT ![c] = <<>>]
    /\ i' = [i EXCEPT ![c] = 0]
    /\ outcome' = [outcome EXCEPT ![c] = <<>>]
    /\ healthCalls' = [healthCalls EXCEPT ![c] = [p \in Providers |-> 0]]
    /\ opCalls' = [opCalls EXCEPT ![c] = [p \in Providers |-> 0]]
    /\ delays' = [delays EXCEPT ![c] = 0]
    /\ result' = [result EXCEPT ![c] = NoResult]
    /\ UNCHANGED <<providers, capabilities, errors>>

\* the steps inside execute, whichever entry point started it
Step(c) ==
    \/ Unsupported(c)
    \/ HealthCheck(c)
    \/ CallOperation(c)
    \/ InterAttemptDelay(c)
    \/ AllProvidersFailed(c)
    \/ Return(c)

(***************************************************************************)
(* ProviderRateLimiter (market_data/utils/rate_limiter.py)                 *)
(***************************************************************************)
\* the sources _register_default_limits seeds
Sources == {"alpha_vantage", "finnhub"}

\* every name acquire is called with: the seeded sources and one that a
\* client may register later
SourceNames == Sources \cup {"custom_provider"}

Tasks == 1..NumTasks

\* timedelta(minutes=1) and timedelta(days=1), in ticks
Minute == TicksPerMinute

Day == DayInMinutes * Minute

\* timeout=None
NoTimeout == 0 - 1

\* None, 0, and one tick (30 s, the default of SharedRateLimiter.acquire)
Timeouts == {NoTimeout, 0, 1}

\* requests_per_minute / requests_per_day; None and 0 are both falsy and
\* both mean "no limit", they are modelled as 0
Configs == [requests_per_minute : 0..MaxCap, requests_per_day : 0..MaxCap]

Max(S) == CHOOSE x \in S : \A y \in S : y <= x

\* while q and q[0] < cutoff: q.popleft()
RECURSIVE PopOld(_, _)
PopOld(q, cutoff) ==
    IF q # <<>> /\ Head(q) < cutoff THEN PopOld(Tail(q), cutoff) ELSE q

\* _cleanup_old_requests, the two windows after it ran at instant now
CleanMinute(s, now) ==
    IF config[s].requests_per_minute > 0
    THEN PopOld(minute_requests[s], now - Minute)
    ELSE minute_requests[s]

CleanDaily(s, now) ==
    IF config[s].requests_per_day > 0
    THEN PopOld(daily_requests[s], now - Day)
    ELSE daily_requests[s]

\* _can_make_request, on the cleaned windows
CanMakeRequest(cfg, minute, daily) ==
    /\ ~(cfg.requests_per_minute > 0 /\ Len(minute) >= cfg.requests_per_minute)
    /\ ~(cfg.requests_per_day > 0 /\ Len(daily) >= cfg.requests_per_day)

\* _get_wait_time, on the cleaned windows
WaitTimes(cfg, minute, daily, now) ==
    (IF cfg.requests_per_minute > 0 /\ Len(minute) >= cfg.requests_per_minute
     THEN {Head(minute) + Minute - now} ELSE {})
    \cup
    (IF cfg.requests_per_day > 0 /\ Len(daily) >= cfg.requests_per_day
     THEN {Head(daily) + Day - now} ELSE {})

Min(S) == CHOOSE x \in S : \A y \in S : x <= y

\* the wait until the first of the full windows has room
GetWaitTimeShortest(cfg, minute, daily, now) ==
    IF WaitTimes(cfg, minute, daily, now) = {} THEN 0
    ELSE Min(WaitTimes(cfg, minute, daily, now))

GetWaitTime(cfg, minute, daily, now) ==
    IF WaitTimes(cfg, minute, daily, now) = {} THEN 0
    ELSE Max(WaitTimes(cfg, minute, daily, now))

\* `timeout and wait_time > timeout`
TimeoutExceeded(timeout, wait) == timeout # NoTimeout /\ timeout # 0 /\ wait > timeout

\* the timestamp appended to the minute window only
RecordMinuteOnly(s, now) ==
    /\ minute_requests' =
          [minute_requests EXCEPT
              ![s] = IF config[s].requests_per_minute > 0 THEN Append(@, now) ELSE @]
    /\ daily_requests' = daily_requests

\* lines 110-113 and 131-134: the timestamp appended to the configured windows
Record(s, now) ==
    /\ minute_requests' =
          [minute_requests EXCEPT
              ![s] = IF config[s].requests_per_minute > 0 THEN Append(@, now) ELSE @]
    /\ daily_requests' =
          [daily_requests EXCEPT
              ![s] = IF config[s].requests_per_day > 0 THEN Append(@, now) ELSE @]

LimiterInit ==
    /\ time = 0
    /\ config \in [SourceNames -> Configs]
    /\ minute_requests = [s \in SourceNames |-> <<>>]
    /\ daily_requests = [s \in SourceNames |-> <<>>]
    /\ lock = [s \in SourceNames |-> 0]
    /\ tpc = [t \in Tasks |-> "idle"]
    /\ tsource = [t \in Tasks |-> "alpha_vantage"]
    /\ ttimeout = [t \in Tasks |-> NoTimeout]
    /\ twake = [t \in Tasks |-> 0]
    /\ tresult = [t \in Tasks |-> "none"]
    /\ calls = 0

\* a task calls acquire(timeout) on the limiter of source s and reaches
\* `async with self._lock`
Acquire(t, s, timeout) ==
    /\ tpc[t] = "idle"
    /\ calls < MaxCalls
    /\ calls' = calls + 1
    /\ tpc' = [tpc EXCEPT ![t] = "lock"]
    /\ tsource' = [tsource EXCEPT ![t] = s]
    /\ ttimeout' = [ttimeout EXCEPT ![t] = timeout]
    /\ twake' = [twake EXCEPT ![t] = 0]
    /\ tresult' = [tresult EXCEPT ![t] = "none"]
    /\ UNCHANGED <<time, config, minute_requests, daily_requests, lock>>

\* the lock ignored: a caller enters whether or not another holds it
LockIgnored(s) == TRUE

\* one lock for all sources: no source's lock may be held
LockFreeEverywhere(s) == \A x \in SourceNames : lock[x] = 0

\* the lock can be taken
LockFree(s) == lock[s] = 0

\* line 106: the lock is taken
EnterLock(t) ==
    /\ tpc[t] = "lock"
    /\ LockFree(tsource[t])
    /\ lock' = [lock EXCEPT ![tsource[t]] = t]
    /\ tpc' = [tpc EXCEPT ![t] = "check"]
    /\ UNCHANGED <<time, config, minute_requests, daily_requests, tsource, ttimeout,
                   twake, tresult, calls>>

\* line 108: self._can_make_request(), which prunes both windows
CheckCapacity(t) ==
    /\ tpc[t] = "check"
    /\ LET s == tsource[t]
           minute == CleanMinute(s, time)
           daily == CleanDaily(s, time)
       IN  /\ minute_requests' = [minute_requests EXCEPT ![s] = minute]
           /\ daily_requests' = [daily_requests EXCEPT ![s] = daily]
           /\ tpc' = [tpc EXCEPT
                         ![t] = IF CanMakeRequest(config[s], minute, daily)
                                THEN "record" ELSE "blocked"]
    /\ UNCHANGED <<time, config, lock, tsource, ttimeout, twake, tresult, calls>>

\* lines 109-114: the timestamp is recorded, the lock released, True returned
RecordImmediately(t) ==
    /\ tpc[t] = "record"
    /\ Record(tsource[t], time)
    /\ lock' = [lock EXCEPT ![tsource[t]] = 0]
    /\ tresult' = [tresult EXCEPT ![t] = "granted_immediately"]
    /\ tpc' = [tpc EXCEPT ![t] = "idle"]
    /\ UNCHANGED <<time, config, tsource, ttimeout, twake, calls>>

\* lines 117-127: the wait is computed (pruning again); either the timeout
\* is exceeded and False is returned, or the task sleeps holding the lock
ComputeWait(t) ==
    /\ tpc[t] = "blocked"
    /\ LET s == tsource[t]
           minute == CleanMinute(s, time)
           daily == CleanDaily(s, time)
           wait == GetWaitTime(config[s], minute, daily, time)
       IN  /\ minute_requests' = [minute_requests EXCEPT ![s] = minute]
           /\ daily_requests' = [daily_requests EXCEPT ![s] = daily]
           /\ IF TimeoutExceeded(ttimeout[t], wait)
              THEN /\ lock' = [lock EXCEPT ![s] = 0]
                   /\ tresult' = [tresult EXCEPT ![t] = "denied"]
                   /\ tpc' = [tpc EXCEPT ![t] = "idle"]
                   /\ UNCHANGED twake
              ELSE /\ twake' = [twake EXCEPT ![t] = time + wait]
                   /\ tpc' = [tpc EXCEPT ![t] = "sleeping"]
                   /\ UNCHANGED <<lock, tresult>>
    /\ UNCHANGED <<time, config, tsource, ttimeout, calls>>

\* lines 127-135: asyncio.sleep(wait_time) is over, the timestamp is
\* recorded, the lock released, True returned
RecordAfterWait(t) ==
    /\ tpc[t] = "sleeping"
    /\ time >= twake[t]
    /\ Record(tsource[t], time)
    /\ lock' = [lock EXCEPT ![tsource[t]] = 0]
    /\ tresult' = [tresult EXCEPT ![t] = "granted_after_wait"]
    /\ tpc' = [tpc EXCEPT ![t] = "idle"]
    /\ UNCHANGED <<time, config, tsource, ttimeout, twake, calls>>

\* the lock still held after the `async with` block was left
LockKeptOnExit(s) == lock

\* `async with self._lock` left by an exception: __aexit__ releases the lock
LockAfterExit(s) == [lock EXCEPT ![s] = 0]

\* the task running acquire is cancelled at one of its suspension points:
\* waiting for the lock (line 106) or inside asyncio.sleep (line 127, lock
\* held); CancelledError propagates out of acquire
Cancel(t) ==
    /\ tpc[t] \in {"lock", "sleeping"}
    /\ lock' = IF tpc[t] = "sleeping" THEN LockAfterExit(tsource[t]) ELSE lock
    /\ tpc' = [tpc EXCEPT ![t] = "idle"]
    /\ tresult' = [tresult EXCEPT ![t] = "cancelled"]
    /\ UNCHANGED <<time, config, minute_requests, daily_requests, tsource, ttimeout,
                   twake, calls>>

\* the clock advances
Tick ==
    /\ time < MaxTime
    /\ time' = time + 1
    /\ UNCHANGED <<config, minute_requests, daily_requests, lock, tpc, tsource,
                   ttimeout, twake, tresult, calls>>

\* Python's None where a number is expected: a quote a contract does not
\* have, the count of a window that is not configured
None == -1

\* no get_status call was made yet
NoLimitStatus ==
    [keys |-> {}, provider |-> "", minute_requests |-> None, minute_limit |-> 0,
     daily_requests |-> None, daily_limit |-> 0, can_make_request |-> FALSE,
     wait_time_seconds |-> 0]

ReportQuiet == limit_status = NoLimitStatus

\* get_status appending the instant of the call to the windows it reports
StatusWindowRecorded(window, cap, now) == IF cap > 0 THEN Append(window, now) ELSE window

\* the window get_status leaves behind: what the cleanup kept
StatusWindow(window, cap, now) == window

\* get_status(), lines 137-153: a synchronous call, made without the lock,
\* by code that runs while every task inside acquire is at an await; the
\* cleanup prunes both windows, the dict holds the counts of the configured
\* windows (None otherwise), the caps, the result of _can_make_request()
\* and, when that is False, the result of _get_wait_time()
GetStatus(s) ==
    /\ \A t \in Tasks : tpc[t] \in {"idle", "lock", "sleeping"}
    /\ LET cfg == config[s]
           minute == CleanMinute(s, time)
           daily == CleanDaily(s, time)
           can == CanMakeRequest(cfg, minute, daily)
       IN  /\ minute_requests' =
                  [minute_requests EXCEPT
                      ![s] = StatusWindow(minute, cfg.requests_per_minute, time)]
           /\ daily_requests' =
                  [daily_requests EXCEPT
                      ![s] = StatusWindow(daily, cfg.requests_per_day, time)]
           /\ limit_status' =
                  [keys |-> {"provider", "minute_requests", "minute_limit",
                             "daily_requests", "daily_limit", "can_make_request"}
                            \cup (IF can THEN {} ELSE {"wait_time_seconds"}),
                   provider |-> s,
                   minute_requests |->
                       IF cfg.requests_per_minute > 0 THEN Len(minute) ELSE None,
                   minute_limit |-> cfg.requests_per_minute,
                   daily_requests |->
                       IF cfg.requests_per_day > 0 THEN Len(daily) ELSE None,
                   daily_limit |-> cfg.requests_per_day,
                   can_make_request |-> can,
                   wait_time_seconds |->
                       IF can THEN 0 ELSE GetWaitTime(cfg, minute, daily, time)]
    /\ UNCHANGED <<time, config, lock, tpc, tsource, ttimeout, twake, tresult, calls>>

(***************************************************************************)
(* ProviderFactory (market_data/providers/provider_factory.py)             *)
(***************************************************************************)
FactoryNames == {"robinhood", "finnhub"}

\* classes inheriting from BaseProvider
ProviderClasses == {"RobinhoodProvider", "FinnhubProvider"}

\* what a client may pass as provider_class
Classes == ProviderClasses \cup {"NotAProvider"}

NoClass == "none"

\* keyword arguments of a create_provider / get_provider call
CtorArgs == {"default", "custom"}

NoInstance == [id |-> 0, class |-> NoClass, args |-> ""]

\* the last call made on the factory: its arguments, the instance or the
\* capability values it returned, the instance it built without returning
\* it, and the exception it raised
NoFactoryCall == [op |-> "none", name |-> "", class |-> NoClass, args |-> "",
                  returned |-> NoInstance, caps |-> {}, temp |-> NoInstance,
                  raised |-> ""]

\* get_capabilities() of the provider classes, as ProviderCapability values
ClassCapabilities(cls) ==
    IF cls = "RobinhoodProvider"
    THEN {"real_time_quotes", "batch_quotes", "options_chain", "fundamentals",
          "historical_data", "unlimited_rate"}
    ELSE IF cls = "FinnhubProvider"
    THEN {"real_time_quotes", "fundamentals", "historical_data", "rate_limited"}
    ELSE {}

\* every name taken as registered
RegisteredAlways(name) == TRUE

\* lines 28 and 54: name in cls._providers
Registered(name) == factory_providers[name] # NoClass

\* a class handing out one and the same object at every call
InstantiateShared(cls, args) == [id |-> 1, class |-> cls, args |-> args]

\* provider_class(**kwargs): calling the class makes an object that did not
\* exist before
Instantiate(cls, args) == [id |-> created + 1, class |-> cls, args |-> args]

\* the class attributes as the class body leaves them: two empty dicts
FactoryInit ==
    /\ factory_providers = [n \in FactoryNames |-> NoClass]
    /\ factory_instances = [n \in FactoryNames |-> NoInstance]
    /\ created = 0
    /\ factory_call = NoFactoryCall

\* every class accepted
IsSubclassAlways(cls) == TRUE

\* line 19: issubclass(provider_class, BaseProvider)
IsSubclass(cls) == cls \in ProviderClasses

\* a registration that drops the instance cached under the name
FactoryRegisterEvicting(name, cls) ==
    /\ IF ~IsSubclass(cls)
       THEN /\ factory_call' = [NoFactoryCall EXCEPT !.op = "register_provider",
                                   !.name = name, !.class = cls, !.raised = "ValueError"]
            /\ UNCHANGED <<factory_providers, factory_instances>>
       ELSE /\ factory_providers' = [factory_providers EXCEPT ![name] = cls]
            /\ factory_instances' = [factory_instances EXCEPT ![name] = NoInstance]
            /\ factory_call' = [NoFactoryCall EXCEPT !.op = "register_provider",
                                   !.name = name, !.class = cls]
    /\ UNCHANGED created

\* register_provider(name, provider_class), lines 17-23
FactoryRegister(name, cls) ==
    /\ IF ~IsSubclass(cls)
       THEN /\ factory_call' = [NoFactoryCall EXCEPT !.op = "register_provider",
                                   !.name = name, !.class = cls, !.raised = "ValueError"]
            /\ UNCHANGED factory_providers
       ELSE /\ factory_providers' = [factory_providers EXCEPT ![name] = cls]
            /\ factory_call' = [NoFactoryCall EXCEPT !.op = "register_provider",
                                   !.name = name, !.class = cls]
    /\ UNCHANGED <<factory_instances, created>>

\* lines 28-37, reached from create_provider or from get_provider: the
\* class is looked up and instantiated (the constructor may raise), and the
\* instance is cached
Create(op, name, args) ==
    IF ~Registered(name)
    THEN /\ factory_call' = [NoFactoryCall EXCEPT !.op = op, !.name = name, !.args = args,
                                !.raised = "ValueError"]
         /\ UNCHANGED <<factory_providers, factory_instances, created>>
    ELSE \/ /\ created < MaxInstances
            /\ LET made == Instantiate(factory_providers[name], args)
               IN  /\ factory_instances' = [factory_instances EXCEPT ![name] = made]
                   /\ factory_call' = [NoFactoryCall EXCEPT !.op = op, !.name = name,
                                          !.args = args, !.returned = made]
            /\ created' = created + 1
            /\ UNCHANGED factory_providers
         \/ /\ factory_call' = [NoFactoryCall EXCEPT !.op = op, !.name = name, !.args = args,
                                   !.raised = "Exception"]
            /\ UNCHANGED <<factory_providers, factory_instances, created>>

\* create_provider(name, **kwargs), lines 26-37
CreateProvider(name, args) == Create("create_provider", name, args)

\* the cache never consulted
CacheHitNever(name) == FALSE

\* line 42: name in cls._instances
CacheHit(name) == factory_instances[name] # NoInstance

\* get_provider(name, **kwargs), lines 40-44
GetProvider(name, args) ==
    IF CacheHit(name)
    THEN /\ factory_call' = [NoFactoryCall EXCEPT !.op = "get_provider", !.name = name,
                                !.args = args, !.returned = factory_instances[name]]
         /\ UNCHANGED <<factory_providers, factory_instances, created>>
    ELSE Create("get_provider", name, args)

\* the temporary instance put in the cache
GetProviderCapabilitiesCaching(name) ==
    /\ Registered(name)
    /\ created < MaxInstances
    /\ LET temp_instance == Instantiate(factory_providers[name], "default")
       IN  /\ factory_call' = [NoFactoryCall EXCEPT !.op = "get_provider_capabilities",
                                  !.name = name, !.temp = temp_instance,
                                  !.caps = ClassCapabilities(temp_instance.class)]
           /\ factory_instances' = [factory_instances EXCEPT ![name] = temp_instance]
    /\ created' = created + 1
    /\ UNCHANGED factory_providers

\* get_provider_capabilities(name), lines 52-59: a temporary instance is
\* built with no arguments and asked for its capabilities
GetProviderCapabilities(name) ==
    /\ IF ~Registered(name)
       THEN /\ factory_call' = [NoFactoryCall EXCEPT !.op = "get_provider_capabilities",
                                   !.name = name, !.raised = "ValueError"]
            /\ UNCHANGED created
       ELSE \/ /\ created < MaxInstances
               /\ LET temp_instance == Instantiate(factory_providers[name], "default")
                  IN  factory_call' =
                         [NoFactoryCall EXCEPT !.op = "get_provider_capabilities",
                             !.name = name, !.temp = temp_instance,
                             !.caps = ClassCapabilities(temp_instance.class)]
               /\ created' = created + 1
            \/ /\ factory_call' = [NoFactoryCall EXCEPT !.op = "get_provider_capabilities",
                                      !.name = name, !.raised = "Exception"]
               /\ UNCHANGED created
    /\ UNCHANGED <<factory_providers, factory_instances>>

\* clear_cache(), lines 62-65
ClearCache ==
    /\ factory_instances' = [n \in FactoryNames |-> NoInstance]
    /\ factory_call' = [NoFactoryCall EXCEPT !.op = "clear_cache"]
    /\ UNCHANGED <<factory_providers, created>>

\* a reset that forgets the instances only
ResetKeepsRegistrations ==
    /\ factory_instances' = [n \in FactoryNames |-> NoInstance]
    /\ factory_call' = [NoFactoryCall EXCEPT !.op = "reset"]
    /\ UNCHANGED <<factory_providers, created>>

\* reset(), lines 68-72
Reset ==
    /\ factory_providers' = [n \in FactoryNames |-> NoClass]
    /\ factory_instances' = [n \in FactoryNames |-> NoInstance]
    /\ factory_call' = [NoFactoryCall EXCEPT !.op = "reset"]
    /\ UNCHANGED created

(***************************************************************************)
(* Options curation: RobinhoodOptionsProvider._filter_professional_options *)
(* (market_data/providers/robinhood_options.py, lines 396-458).  A         *)
(* contract is a dict with strike, volume, open_interest, bid and ask;     *)
(* prices and strikes are whole numbers here.                              *)
(***************************************************************************)
\* line 401: return options[:10]
FallbackCount == 10

\* line 442: if len(professional_options) < 5
MinProfessional == 5

\* line 445: if len(professional_options) >= 10: break
MaxPadded == 10

\* line 458: return professional_options[:8]
MaxStrikesPerType == 8

\* lines 421 and 423: current_price * 0.15, in percent
ProfessionalBand == 15

\* line 449: current_price * 0.25, in percent
NearMoneyBand == 25

Abs(x) == IF x < 0 THEN 0 - x ELSE x

\* seq[:n]
Prefix(seq, n) == SubSeq(seq, 1, IF Len(seq) < n THEN Len(seq) ELSE n)

\* the position item i takes when a list is sorted by keys: list.sort is
\* stable, items with equal keys keep their order
Rank(keys, a) ==
    1 + Cardinality({b \in 1..Len(keys) : keys[b] < keys[a] \/ (keys[b] = keys[a] /\ b < a)})

\* list.sort(key=...): items in ascending order of their keys
StableSort(items, keys) ==
    [k \in 1..Len(items) |-> items[CHOOSE a \in 1..Len(items) : Rank(keys, a) = k]]

\* line 404: options.sort(key=lambda x: x["strike"])
SortedByStrike(opts) == StableSort(opts, [k \in 1..Len(opts) |-> opts[k].strike])

\* lines 407-409: min(options, key=lambda x: abs(x["strike"] - current_price)),
\* the first of the closest contracts
AtmStrike(opts, price) ==
    LET closest == CHOOSE a \in 1..Len(opts) :
                       \A b \in 1..Len(opts) :
                          \/ Abs(opts[a].strike - price) < Abs(opts[b].strike - price)
                          \/ Abs(opts[a].strike - price) = Abs(opts[b].strike - price) /\ a <= b
    IN  opts[closest].strike

\* abs(strike - atm_strike) <= current_price * band
WithinBand(strike, atm, price, band) == Abs(strike - atm) * 100 <= price * band

\* lines 432-438: is_liquid
IsLiquid(o) ==
    \/ o.volume > 0
    \/ o.open_interest > 10
    \/ (o.bid # None /\ o.ask # None /\ o.bid > 0)

\* lines 414-440: the contracts in the band that are liquid
FirstPass(opts, atm, price) ==
    SelectSeq(opts, LAMBDA o : WithinBand(o.strike, atm, price, ProfessionalBand) /\ IsLiquid(o))

\* lines 444-451: the loop adding near-money contracts
RECURSIVE AddNearMoney(_, _, _, _)
AddNearMoney(opts, professional, atm, price) ==
    IF opts = <<>> \/ Len(professional) >= MaxPadded THEN professional
    ELSE IF /\ ~SeqHas(professional, Head(opts))
            /\ WithinBand(Head(opts).strike, atm, price, NearMoneyBand)
    THEN AddNearMoney(Tail(opts), Append(professional, Head(opts)), atm, price)
    ELSE AddNearMoney(Tail(opts), professional, atm, price)

\* no contract added when too few passed
PaddedNever(sorted, first, atm, price) == first

\* lines 442-451: if too few passed, near-money contracts are added
Padded(sorted, first, atm, price) ==
    IF Len(first) < MinProfessional THEN AddNearMoney(sorted, first, atm, price) ELSE first

\* line 401: the fallback for an empty list or an unknown price
Fallback(opts) == Prefix(opts, FallbackCount)

\* lines 403-458, on the sorted list
Professional(sorted, price) ==
    LET atm == AtmStrike(sorted, price)
        padded == Padded(sorted, FirstPass(sorted, atm, price), atm, price)
        nearest == StableSort(padded, [k \in 1..Len(padded) |-> Abs(padded[k].strike - atm)])
    IN  Prefix(nearest, MaxStrikesPerType)

\* _filter_professional_options(options, current_price, option_type); the
\* two option types take the same path
FilterProfessionalOptions ==
    /\ fpc = "ready"
    /\ fpc' = "returned"
    /\ IF options = <<>> \/ current_price <= 0
       THEN /\ professional_options' = Fallback(options)
            /\ UNCHANGED options
       ELSE /\ options' = SortedByStrike(options)
            /\ professional_options' = Professional(SortedByStrike(options), current_price)
    /\ UNCHANGED <<options_before, current_price, option_type>>
    /\ UNCHANGED <<raw_data, current_analysis, apc>>

\* the liquidity a contract may show: traded, open interest above ten,
\* quoted on both sides, a bid alone, a zero bid with an ask
Liquidities ==
    { [volume |-> 5, open_interest |-> 0, bid |-> None, ask |-> None],
      [volume |-> 0, open_interest |-> 11, bid |-> None, ask |-> None],
      [volume |-> 0, open_interest |-> 10, bid |-> 1, ask |-> 2],
      [volume |-> 0, open_interest |-> 10, bid |-> 1, ask |-> None],
      [volume |-> 0, open_interest |-> 0, bid |-> 0, ask |-> 2] }

Contract(strike, l) ==
    [strike |-> strike, volume |-> l.volume, open_interest |-> l.open_interest,
     bid |-> l.bid, ask |-> l.ask]

\* one side of one expiration with five strikes around the price
ExampleStrikes == <<100, 110, 120, 130, 140>>

ExamplePrice == 120

ExampleInputs ==
    /\ options \in {[k \in 1..5 |-> Contract(ExampleStrikes[k], f[k])] : f \in [1..5 -> Liquidities]}
    /\ current_price = ExamplePrice

\* a ladder of n strikes from 110 upwards, two apart or all the same, in
\* ascending or descending order, every contract with the same liquidity;
\* the price is known (120) or not (0)
Ladder(n, step, ascending, l) ==
    [k \in 1..n |-> Contract(110 + step * ((IF ascending THEN k ELSE n + 1 - k) - 1), l)]

LadderInputs ==
    /\ options \in {Ladder(n, step, asc, l) :
                        n \in 0..MaxContracts, step \in {0, 2}, asc \in BOOLEAN,
                        l \in Liquidities}
    /\ current_price \in {0, ExamplePrice}

\* no indicator result at hand
NoRawData == [data |-> FALSE, series |-> <<>>]

\* before the call
CuratorInit ==
    /\ ExampleInputs \/ LadderInputs
    /\ options_before = options
    /\ option_type \in {"call", "put"}
    /\ professional_options = <<>>
    /\ fpc = "ready"
    /\ raw_data = NoRawData
    /\ current_analysis = <<>>
    /\ apc = "idle"

\* no curation: the state the other specifications keep
CuratorQuiet ==
    /\ options = <<>>
    /\ options_before = <<>>
    /\ current_price = 0
    /\ option_type = "call"
    /\ professional_options = <<>>
    /\ fpc = "idle"
    /\ raw_data = NoRawData
    /\ current_analysis = <<>>
    /\ apc = "idle"

(***************************************************************************)
(* Indicator curation: DataOptimizer.optimize_rsi_data and                 *)
(* optimize_macd_data (finance_data_server/utils/data_optimizers.py, lines *)
(* 144-283).  The series of raw_data is kept as a sequence ordered by      *)
(* date, oldest first; a date is a position in it.  Values are whole       *)
(* numbers.                                                                *)
(***************************************************************************)
\* a value float() cannot parse, or a missing key
Unparseable == -1

\* lines 156 and 222: the five most recent dates are looked at
RecentCount == 5

\* lines 180-181 and 260-261: the trend is taken over three points
TrendPoints == 3

\* line 170: latest_rsi >= 70
Overbought == 70

\* line 172: latest_rsi <= 30
Oversold == 30

\* line 174: latest_rsi > 50
Midline == 50

\* sorted(time_series.items(), reverse=True)[:5]: the most recent dates
\* first, as (date, raw value) pairs
MostRecent(series) ==
    [k \in 1..(IF Len(series) < RecentCount THEN Len(series) ELSE RecentCount) |->
        [date |-> Len(series) + 1 - k, raw |-> series[Len(series) + 1 - k]]]

\* lines 155-162: the points whose value parses
RsiRecentValues(series) ==
    LET parsed == SelectSeq(MostRecent(series), LAMBDA e : e.raw # Unparseable)
    IN  [k \in 1..Len(parsed) |-> [date |-> parsed[k].date, rsi |-> parsed[k].raw]]

\* lines 169-177: signal
RsiSignal(latest_rsi) ==
    IF latest_rsi >= Overbought THEN "OVERBOUGHT"
    ELSE IF latest_rsi <= Oversold THEN "OVERSOLD"
    ELSE IF latest_rsi > Midline THEN "BULLISH"
    ELSE "BEARISH"

\* all(values[k] > values[k + 1]) over the first three values
StrictlyFalling(values) == \A k \in 1..(TrendPoints - 1) : values[k] > values[k + 1]

\* all(values[k] < values[k + 1]) over the first three values
StrictlyRising(values) == \A k \in 1..(TrendPoints - 1) : values[k] < values[k + 1]

\* the trend read with the oldest value first
RsiTrendOldestFirst(recent_values) ==
    IF Len(recent_values) >= TrendPoints
    THEN LET trend_values == [k \in 1..TrendPoints |-> recent_values[k].rsi]
         IN  IF StrictlyRising(trend_values) THEN "RISING"
             ELSE IF StrictlyFalling(trend_values) THEN "FALLING"
             ELSE "SIDEWAYS"
    ELSE "INSUFFICIENT_DATA"

\* lines 179-195: trend; recent_values has the most recent value first
RsiTrend(recent_values) ==
    IF Len(recent_values) >= TrendPoints
    THEN LET trend_values == [k \in 1..TrendPoints |-> recent_values[k].rsi]
         IN  IF StrictlyFalling(trend_values) THEN "RISING"
             ELSE IF StrictlyRising(trend_values) THEN "FALLING"
             ELSE "SIDEWAYS"
    ELSE "INSUFFICIENT_DATA"

\* optimize_rsi_data(raw_data, symbol, period), lines 145-208
OptimizeRsiData ==
    /\ apc = "ready"
    /\ IF ~raw_data.data \/ raw_data.series = <<>> \/ RsiRecentValues(raw_data.series) = <<>>
       THEN \* lines 148, 152, 164: return raw_data
            /\ apc' = "raw"
            /\ UNCHANGED current_analysis
       ELSE LET recent_values == RsiRecentValues(raw_data.series)
                latest_rsi == recent_values[1].rsi
            IN  /\ apc' = "analysed"
                /\ current_analysis' =
                      [latest_rsi |-> latest_rsi,
                       signal |-> RsiSignal(latest_rsi),
                       trend_direction |-> RsiTrend(recent_values),
                       recent_values |-> recent_values]
    /\ UNCHANGED raw_data
    /\ UNCHANGED <<options, options_before, current_price, option_type,
                   professional_options, fpc>>

\* lines 221-237: the points whose three values parse
MacdRecentValues(series) ==
    LET parsed == SelectSeq(MostRecent(series),
                            LAMBDA e : /\ e.raw.macd # Unparseable
                                       /\ e.raw.signal # Unparseable
                                       /\ e.raw.histogram # Unparseable)
    IN  [k \in 1..Len(parsed) |->
            [date |-> parsed[k].date, macd |-> parsed[k].raw.macd,
             signal |-> parsed[k].raw.signal, histogram |-> parsed[k].raw.histogram]]

\* a crossover only from strictly the other side
MacdCrossoverStrict(recent_values) ==
    IF Len(recent_values) >= 2
    THEN LET current_diff == recent_values[1].macd - recent_values[1].signal
             previous_diff == recent_values[2].macd - recent_values[2].signal
         IN  IF current_diff > 0 /\ previous_diff < 0 THEN "BULLISH_CROSSOVER"
             ELSE IF current_diff < 0 /\ previous_diff > 0 THEN "BEARISH_CROSSOVER"
             ELSE IF current_diff > 0 THEN "BULLISH"
             ELSE "BEARISH"
    ELSE "NEUTRAL"

\* lines 244-256: crossover_signal
MacdCrossover(recent_values) ==
    IF Len(recent_values) >= 2
    THEN LET current_diff == recent_values[1].macd - recent_values[1].signal
             previous_diff == recent_values[2].macd - recent_values[2].signal
         IN  IF current_diff > 0 /\ previous_diff <= 0 THEN "BULLISH_CROSSOVER"
             ELSE IF current_diff < 0 /\ previous_diff >= 0 THEN "BEARISH_CROSSOVER"
             ELSE IF current_diff > 0 THEN "BULLISH"
             ELSE "BEARISH"
    ELSE "NEUTRAL"

\* lines 259-269: histogram_trend
HistogramTrend(recent_values) ==
    IF Len(recent_values) >= TrendPoints
    THEN LET hist_values == [k \in 1..TrendPoints |-> recent_values[k].histogram]
         IN  IF StrictlyFalling(hist_values) THEN "STRENGTHENING"
             ELSE IF StrictlyRising(hist_values) THEN "WEAKENING"
             ELSE "NEUTRAL"
    ELSE "NEUTRAL"

\* optimize_macd_data(raw_data, symbol), lines 211-283
OptimizeMacdData ==
    /\ apc = "ready"
    /\ IF ~raw_data.data \/ raw_data.series = <<>> \/ MacdRecentValues(raw_data.series) = <<>>
       THEN \* lines 214, 218, 239: return raw_data
            /\ apc' = "raw"
            /\ UNCHANGED current_analysis
       ELSE LET recent_values == MacdRecentValues(raw_data.series)
                latest == recent_values[1]
            IN  /\ apc' = "analysed"
                /\ current_analysis' =
                      [latest_macd |-> latest.macd,
                       latest_signal |-> latest.signal,
                       latest_histogram |-> latest.histogram,
                       crossover_signal |-> MacdCrossover(recent_values),
                       histogram_trend |-> HistogramTrend(recent_values),
                       recent_values |-> recent_values]
    /\ UNCHANGED raw_data
    /\ UNCHANGED <<options, options_before, current_price, option_type,
                   professional_options, fpc>>

\* sequences over S of length n, and of length at most n
SeqsOfLen(S, n) == [1..n -> S]

\* a MACD point: the line below, on or above a signal of 1, and a histogram
\* value; or a point one of whose values does not parse
MacdPoints ==
    [macd : {0, 1, 2}, signal : {1}, histogram : {0, 1, 2}]
        \cup {[macd |-> 1, signal |-> 1, histogram |-> Unparseable],
              [macd |-> Unparseable, signal |-> 1, histogram |-> 1]}

OlderMacd ==
    UNION {SeqsOfLen({[macd |-> 1, signal |-> 1, histogram |-> 1],
                      [macd |-> 1, signal |-> Unparseable, histogram |-> 1]}, n) :
              n \in 0..MaxOlder}

MacdSeries ==
    {older \o recent : older \in OlderMacd,
                       recent \in UNION {SeqsOfLen(MacdPoints, n) : n \in 0..TrendPoints}}

\* before optimize_macd_data is called
MacdInit ==
    /\ raw_data \in {NoRawData} \cup {[data |-> TRUE, series |-> q] : q \in MacdSeries}
    /\ current_analysis = <<>>
    /\ apc = "ready"
    /\ options = <<>>
    /\ options_before = <<>>
    /\ current_price = 0
    /\ option_type = "call"
    /\ professional_options = <<>>
    /\ fpc = "idle"

\* the dates before the three most recent ones carry a mid-range value or
\* one that does not parse
OlderRsi == UNION {SeqsOfLen({55, Unparseable}, n) : n \in 0..MaxOlder}

\* the values of the most recent dates: around each threshold, and ones
\* that do not parse
RsiValues == {30, 31, 50, 51, 55, 68, 69, 70, 72, Unparseable}

RsiSeries ==
    {older \o recent : older \in OlderRsi,
                       recent \in UNION {SeqsOfLen(RsiValues, n) : n \in 0..TrendPoints}}

\* before optimize_rsi_data is called
RsiInit ==
    /\ raw_data \in {NoRawData} \cup {[data |-> TRUE, series |-> q] : q \in RsiSeries}
    /\ current_analysis = <<>>
    /\ apc = "ready"
    /\ options = <<>>
    /\ options_before = <<>>
    /\ current_price = 0
    /\ option_type = "call"
    /\ professional_options = <<>>
    /\ fpc = "idle"

(***************************************************************************)
(* Options chain curation: DataOptimizer.optimize_options_data             *)
(* (finance_data_server/utils/data_optimizers.py, lines 11-142).  The      *)
(* chain is a list of expirations, each with its CALL and PUT contracts;   *)
(* a contract is its strike, volume and openInterest (the quote fields are *)
(* copied through).  A dict is kept as the sequence of its items in        *)
(* insertion order.                                                        *)
(***************************************************************************)
\* contract.get("expirationDate") of an entry that has none
NoDate == ""

\* line 11: max_expirations: int = 10
DefaultMaxExpirations == 10

\* lines 95 and 98: [:20]
MaxContractsPerType == 20

\* line 94: total_volume > 50
MinExpirationVolume == 50

\* lines 48 and 72: volume > 10
MinVolume == 10

\* lines 48 and 72: oi > 100
MinOpenInterest == 100

\* lines 49 and 73: moneyness <= 15
MoneynessRange == 15

\* lines 47-49: abs(strike - current_price) / current_price * 100 <= 15
IsRelevant(o, price) == Abs(o.strike - price) * 100 <= MoneynessRange * price

\* line 48: volume > 10 or oi > 100
HasLiquidityOptimizer(o) == o.volume > MinVolume \/ o.openInterest > MinOpenInterest

\* every contract kept, whatever its strike and liquidity
FilteredNothing(contracts, price) == contracts

\* lines 40-64 and 66-88: the contracts of one side that are kept
Filtered(contracts, price) ==
    SelectSeq(contracts, LAMBDA o : HasLiquidityOptimizer(o) /\ IsRelevant(o, price))

\* sum(c.get("volume", 0) for c in ...)
RECURSIVE SumVolume(_)
SumVolume(contracts) ==
    IF contracts = <<>> THEN 0 ELSE Head(contracts).volume + SumVolume(Tail(contracts))

\* sorted(..., key=lambda x: x["volume"], reverse=True)[:20]: largest
\* volume first, equal volumes in their original order
TopByVolume(contracts) ==
    Prefix(StableSort(contracts, [k \in 1..Len(contracts) |-> 0 - contracts[k].volume]),
           MaxContractsPerType)

\* lines 90-100: the entry of one expiration
ExpirationEntry(e, price) ==
    [date |-> e.expirationDate,
     calls |-> TopByVolume(Filtered(e.calls, price)),
     puts |-> TopByVolume(Filtered(e.puts, price)),
     total_volume |-> SumVolume(Filtered(e.calls, price)) + SumVolume(Filtered(e.puts, price))]

\* optimized_expirations[exp_date] = entry: a date already there keeps its
\* place and takes the new entry
RECURSIVE ExpirationSet(_, _)
ExpirationSet(d, entry) ==
    IF d = <<>> THEN <<entry>>
    ELSE IF Head(d).date = entry.date THEN <<entry>> \o Tail(d)
    ELSE <<Head(d)>> \o ExpirationSet(Tail(d), entry)

\* lines 27-100: the loop over the contracts, building optimized_expirations
RECURSIVE OptimizedExpirations(_, _, _)
OptimizedExpirations(contracts, price, d) ==
    IF contracts = <<>> THEN d
    ELSE LET e == Head(contracts)
             entry == ExpirationEntry(e, price)
         IN  IF e.expirationDate = NoDate
             THEN OptimizedExpirations(Tail(contracts), price, d)
             ELSE IF entry.total_volume > MinExpirationVolume
             THEN OptimizedExpirations(Tail(contracts), price, ExpirationSet(d, entry))
             ELSE OptimizedExpirations(Tail(contracts), price, d)

\* the expirations left in the order the loop met them
SortedExpirationsUnsorted(d, limit) == Prefix(d, limit)

\* lines 103-109: sorted(optimized_expirations.items(),
\* key=lambda x: x[1]["total_volume"], reverse=True)[:max_expirations]
SortedExpirations(d, limit) ==
    Prefix(StableSort(d, [k \in 1..Len(d) |-> 0 - d[k].total_volume]), limit)

\* optimize_options_data(raw_data, max_expirations)
OptimizeOptionsData ==
    /\ opc = "ready"
    /\ IF ~raw_options.data \/ raw_options.contracts = <<>> \/ raw_options.lastTradePrice = 0
       THEN \* lines 14, 18, 22: return raw_data
            /\ opc' = "raw"
            /\ UNCHANGED optimized
       ELSE /\ opc' = "optimized"
            /\ optimized' =
                  SortedExpirations(
                      OptimizedExpirations(raw_options.contracts,
                                           raw_options.lastTradePrice, <<>>),
                      max_expirations)
    /\ UNCHANGED <<raw_options, max_expirations>>

\* the two prices of a chain: none (0, None or missing) and 100
OptionsPrice == 100

OptionContract(strike, volume, oi) ==
    [strike |-> strike, volume |-> volume, openInterest |-> oi]

\* the contracts of one side of one expiration: none; one traded contract
\* at the money; contracts at and beyond the edges of the range and of the
\* liquidity bar; two traded contracts in ascending volume and a liquid one
\* out of range
Sides ==
    << <<>>,
       <<OptionContract(100, 60, 0)>>,
       <<OptionContract(85, 30, 0), OptionContract(116, 500, 500),
         OptionContract(100, 10, 100), OptionContract(115, 0, 101)>>,
       <<OptionContract(100, 11, 0), OptionContract(100, 40, 0),
         OptionContract(84, 900, 900)>> >>

\* the CALL and PUT sides an expiration may have, with surviving volumes
\* 60, 81, 51 and 30
ExpirationProfiles ==
    { [calls |-> Sides[2], puts |-> Sides[1]],
      [calls |-> Sides[3], puts |-> Sides[4]],
      [calls |-> Sides[1], puts |-> Sides[4]],
      [calls |-> Sides[3], puts |-> Sides[1]] }

ExpirationDates == {"2025-01-17", "2025-02-21", "2025-03-21"}

\* the chains of n entries: each entry has one of the dates or none, and no
\* date comes twice
RECURSIVE Chains(_)
Chains(n) ==
    IF n = 0 THEN {<<>>}
    ELSE {Append(c, [expirationDate |-> date, calls |-> p.calls, puts |-> p.puts]) :
            c \in Chains(n - 1), date \in ExpirationDates \cup {NoDate},
            p \in ExpirationProfiles}

DistinctDates(c) ==
    \A a, b \in 1..Len(c) :
        (a # b /\ c[a].expirationDate # NoDate) => c[a].expirationDate # c[b].expirationDate

NoRawOptions == [data |-> FALSE, lastTradePrice |-> 0, contracts |-> <<>>]

\* before the call
OptimizerInit ==
    /\ raw_options \in
          {NoRawOptions} \cup
          {[data |-> TRUE, lastTradePrice |-> price, contracts |-> c] :
              price \in {0, OptionsPrice},
              c \in {x \in UNION {Chains(n) : n \in 0..MaxExpirations} : DistinctDates(x)}}
    /\ max_expirations \in {1, 2, DefaultMaxExpirations}
    /\ optimized = <<>>
    /\ opc = "ready"

\* no call of optimize_options_data: the state the other specifications keep
OptimizerQuiet ==
    /\ raw_options = NoRawOptions
    /\ max_expirations = DefaultMaxExpirations
    /\ optimized = <<>>
    /\ opc = "idle"

(***************************************************************************)
(* RobinhoodProvider authentication                                        *)
(* (market_data/providers/robinhood_provider.py, lines 18-100).  Time is   *)
(* counted in hours; the backoff sleeps last seconds.                      *)
(***************************************************************************)
\* line 19: AUTH_TIMEOUT_HOURS = 23
AUTH_TIMEOUT_HOURS == 23

\* line 20: MAX_AUTH_RETRIES = 3
MAX_AUTH_RETRIES == 3

\* what self.auth.login() does: returns True, returns False, raises
LoginOutcome == {"success", "failure", "raises"}

\* the token never counted as expired once a timestamp is there
IsAuthExpiredNever == auth_timestamp = None

\* _is_auth_expired(), lines 51-57
IsAuthExpired ==
    \/ auth_timestamp = None
    \/ hours - auth_timestamp > AUTH_TIMEOUT_HOURS

\* __init__, lines 22-27
AuthInit ==
    /\ authenticated = FALSE
    /\ auth_timestamp = None
    /\ auth_retry_count = 0
    /\ attempt = 0
    /\ login_calls = 0
    /\ auth_pc = "idle"
    /\ hours = 0

\* no provider in use: the state the other specifications keep
AuthQuiet == AuthInit

\* ensure_authenticated(), lines 59-63: the call and its test
EnsureAuthenticated ==
    /\ auth_pc \in {"idle", "returned", "raised"}
    /\ login_calls' = 0
    /\ attempt' = 0
    /\ auth_pc' = IF ~authenticated \/ IsAuthExpired THEN "login" ELSE "returned"
    /\ UNCHANGED <<authenticated, auth_timestamp, auth_retry_count, hours>>

\* _authenticate_with_retry(), lines 67-88: one pass of the loop body; a
\* pass that was the last one goes on to lines 85-88 without suspending
Login(answer) ==
    /\ auth_pc = "login"
    /\ attempt < MAX_AUTH_RETRIES
    /\ login_calls' = login_calls + 1
    /\ IF answer = "success"
       THEN /\ authenticated' = TRUE
            /\ auth_timestamp' = hours
            /\ auth_retry_count' = 0
            /\ auth_pc' = "returned"
            /\ UNCHANGED attempt
       ELSE IF attempt + 1 = MAX_AUTH_RETRIES
       THEN \* lines 85-88: all retries failed
            /\ authenticated' = FALSE
            /\ auth_timestamp' = None
            /\ auth_pc' = "raised"
            /\ attempt' = attempt + 1
            /\ UNCHANGED auth_retry_count
       ELSE IF answer = "raises"
       THEN \* line 83: await asyncio.sleep(2 ** attempt)
            /\ auth_pc' = "backoff"
            /\ UNCHANGED <<authenticated, auth_timestamp, auth_retry_count, attempt>>
       ELSE /\ attempt' = attempt + 1
            /\ UNCHANGED <<authenticated, auth_timestamp, auth_retry_count, auth_pc>>
    /\ UNCHANGED hours

\* the backoff sleep is over: the next pass of the loop
Backoff ==
    /\ auth_pc = "backoff"
    /\ attempt' = attempt + 1
    /\ auth_pc' = "login"
    /\ UNCHANGED <<authenticated, auth_timestamp, auth_retry_count, login_calls, hours>>

\* cleanup_session(), lines 90-100: the finally block
CleanupSession ==
    /\ auth_pc \in {"idle", "returned", "raised"}
    /\ authenticated' = FALSE
    /\ auth_timestamp' = None
    /\ auth_retry_count' = 0
    /\ UNCHANGED <<attempt, login_calls, auth_pc, hours>>

\* time passes between calls: an hour, or all but an hour of the timeout
HoursPass(h) ==
    /\ auth_pc \in {"idle", "returned", "raised"}
    /\ hours + h <= MaxHours
    /\ hours' = hours + h
    /\ UNCHANGED <<authenticated, auth_timestamp, auth_retry_count, attempt,
                   login_calls, auth_pc>>

(***************************************************************************)
(* SharedRateLimiter (market_data/utils/rate_limiter.py, lines 156-246)    *)
(***************************************************************************)
\* None
NoObject == 0

\* the object super().__new__(cls) creates: the first one made is object 1,
\* one made while another exists is a different object
NewObject(existing) == existing + 1

NoConfig == [requests_per_minute |-> 0, requests_per_day |-> 0]

\* the configurations _register_default_limits seeds (5/min and 25/day,
\* 60/min), scaled to the caps explored
DefaultConfig(s) ==
    IF s = "alpha_vantage"
    THEN [requests_per_minute |-> 1, requests_per_day |-> MaxCap]
    ELSE [requests_per_minute |-> MaxCap, requests_per_day |-> 0]

\* the configurations a client registers a source with
ClientConfigs == {[requests_per_minute |-> n, requests_per_day |-> 0] : n \in {1, MaxCap}}

NoSharedCall == [op |-> "none", name |-> "", config |-> NoConfig, object |-> NoObject]

\* the module was imported: line 241 constructed the singleton, which
\* seeded the default sources
SharedImported ==
    /\ instance = NewObject(NoObject)
    /\ initialized = TRUE
    /\ rate_limiter = NewObject(NoObject)
    /\ provider_limiters = Sources
    /\ shared_call = NoSharedCall

\* every name counts as having a limiter
HasLimiterAlways(name) == TRUE

\* provider_name in self.provider_limiters
HasLimiter(name) == name \in provider_limiters

\* __init__ runs its body whatever _initialized says
InitializedNever(flag) == FALSE

\* line 172: `if self._initialized: return`
Initialized(flag) == flag

\* SharedRateLimiter(): __new__ (lines 165-169), then __init__ (171-179)
Construct ==
    LET obj == IF instance = NoObject THEN NewObject(NoObject) ELSE instance
        flag == IF instance = NoObject THEN FALSE ELSE initialized
    IN  /\ instance' = obj
        /\ shared_call' = [NoSharedCall EXCEPT !.op = "construct", !.object = obj]
        /\ initialized' = TRUE
        /\ IF Initialized(flag)
           THEN UNCHANGED <<provider_limiters, config, minute_requests, daily_requests, lock>>
           ELSE \* self.provider_limiters = {}, then the defaults are registered
                /\ provider_limiters' = Sources
                /\ config' = [s \in SourceNames |->
                                 IF s \in Sources THEN DefaultConfig(s) ELSE NoConfig]
                /\ minute_requests' = [s \in SourceNames |-> <<>>]
                /\ daily_requests' = [s \in SourceNames |-> <<>>]
                /\ lock' = [s \in SourceNames |-> 0]
        /\ UNCHANGED <<rate_limiter, time, tpc, tsource, ttimeout, twake, tresult, calls>>

\* get_rate_limiter(), lines 244-246
GetRateLimiter ==
    /\ shared_call' = [NoSharedCall EXCEPT !.op = "get_rate_limiter", !.object = rate_limiter]
    /\ UNCHANGED <<instance, initialized, rate_limiter, provider_limiters>>
    /\ UNCHANGED limiterVars

\* register_provider(provider_name, config), lines 201-205
RegisterProvider(name, cfg) ==
    /\ shared_call' = [NoSharedCall EXCEPT !.op = "register_provider", !.name = name,
                                            !.config = cfg]
    /\ IF ~HasLimiter(name)
       THEN \* a new ProviderRateLimiter(provider_name, config)
            /\ provider_limiters' = provider_limiters \cup {name}
            /\ config' = [config EXCEPT ![name] = cfg]
            /\ minute_requests' = [minute_requests EXCEPT ![name] = <<>>]
            /\ daily_requests' = [daily_requests EXCEPT ![name] = <<>>]
            /\ lock' = [lock EXCEPT ![name] = 0]
       ELSE UNCHANGED <<provider_limiters, config, minute_requests, daily_requests, lock>>
    /\ UNCHANGED <<instance, initialized, rate_limiter>>
    /\ UNCHANGED <<time, tpc, tsource, ttimeout, twake, tresult, calls>>

\* SharedRateLimiter.acquire(provider_name, timeout), lines 207-223
SharedAcquire(t, name, timeout) ==
    IF ~HasLimiter(name)
    THEN \* line 220: return True
         /\ tpc[t] = "idle"
         /\ calls < MaxCalls
         /\ calls' = calls + 1
         /\ tsource' = [tsource EXCEPT ![t] = name]
         /\ ttimeout' = [ttimeout EXCEPT ![t] = timeout]
         /\ twake' = [twake EXCEPT ![t] = 0]
         /\ tresult' = [tresult EXCEPT ![t] = "granted_unregistered"]
         /\ UNCHANGED <<time, config, minute_requests, daily_requests, lock, tpc>>
    ELSE Acquire(t, name, timeout)

\* no limiter activity: the state the chain specifications keep
LimiterQuiet ==
    /\ time = 0
    /\ config = [s \in SourceNames |-> [requests_per_minute |-> 0, requests_per_day |-> 0]]
    /\ minute_requests = [s \in SourceNames |-> <<>>]
    /\ daily_requests = [s \in SourceNames |-> <<>>]
    /\ lock = [s \in SourceNames |-> 0]
    /\ tpc = [t \in Tasks |-> "idle"]
    /\ tsource = [t \in Tasks |-> "alpha_vantage"]
    /\ ttimeout = [t \in Tasks |-> NoTimeout]
    /\ twake = [t \in Tasks |-> 0]
    /\ tresult = [t \in Tasks |-> "none"]
    /\ calls = 0

\* no chain activity: the state the limiter specifications keep
ChainQuiet ==
    /\ providers = <<>>
    /\ capabilities = [p \in Providers |-> {}]
    /\ errors = <<>>
    /\ pc = [c \in Callers |-> "idle"]
    /\ run = [c \in Callers |-> <<>>]
    /\ isTemp = [c \in Callers |-> FALSE]
    /\ required = [c \in Callers |-> NoFilter]
    /\ tempErrors = [c \in Callers |-> <<>>]
    /\ i = [c \in Callers |-> 0]
    /\ outcome = [c \in Callers |-> <<>>]
    /\ healthCalls = [c \in Callers |-> [p \in Providers |-> 0]]
    /\ opCalls = [c \in Callers |-> [p \in Providers |-> 0]]
    /\ delays = [c \in Callers |-> 0]
    /\ result = [c \in Callers |-> NoResult]

\* no reorder or status call made: the state the other specifications keep
AdminQuiet ==
    /\ priority_order = <<>>
    /\ spc = "idle"
    /\ probes = <<>>
    /\ status = <<>>
    /\ statusResult = NoStatusResult

\* no create_provider call returned yet
RecallQuiet == last_created = [n \in FactoryNames |-> NoInstance]

\* the caller holds no all-providers-failed result
KeptQuiet ==
    /\ kept_errors = <<>>
    /\ kept_object = "none"

Init == ChainInit /\ LimiterQuiet /\ AdminQuiet /\ SharedImported /\ FactoryInit /\ RecallQuiet /\ KeptQuiet /\ AuthQuiet /\ OptimizerQuiet /\ ReportQuiet /\ CuratorQuiet

\* a chain driven through execute
Next ==
    /\ \E c \in Sequential :
          \/ Execute(c)
          \/ Step(c)
    /\ UNCHANGED <<limiterVars, adminVars, sharedVars, factoryVars, curatorVars, reportVars, optimizerVars, authVars, keptVars, recallVars>>

Spec == Init /\ [][Next]_vars

\* a chain driven through execute_with_capability_filter
NextFilter ==
    /\ \E c \in Sequential :
          \/ \E cap \in ProviderCapability : ExecuteWithCapabilityFilter(c, cap)
          \/ Step(c)
    /\ UNCHANGED <<limiterVars, adminVars, sharedVars, factoryVars, curatorVars, reportVars, optimizerVars, authVars, keptVars, recallVars>>

SpecFilter == Init /\ [][NextFilter]_vars

\* a chain driven through both entry points
NextBoth ==
    /\ \E c \in Sequential :
          \/ Execute(c)
          \/ \E cap \in ProviderCapability : ExecuteWithCapabilityFilter(c, cap)
          \/ Step(c)
    /\ UNCHANGED <<limiterVars, adminVars, sharedVars, factoryVars, curatorVars, reportVars, optimizerVars, authVars, keptVars, recallVars>>

SpecBoth == Init /\ [][NextBoth]_vars

\* a chain whose order is changed by reorder_by_priority
InitReorder == Init /\ capabilities = [p \in Providers |-> {}]

NextReorder ==
    /\ \E names \in PriorityLists : ReorderByPriority(names)
    /\ UNCHANGED <<limiterVars, sharedVars, factoryVars, curatorVars, reportVars, optimizerVars, authVars, keptVars, recallVars>>

SpecReorder == InitReorder /\ [][NextReorder]_vars

\* a chain probed by get_chain_status
NextStatus ==
    /\ \/ GetChainStatus
       \/ Probe
       \/ StatusReturn
       \/ StatusDone
    /\ UNCHANGED <<limiterVars, sharedVars, factoryVars, curatorVars, reportVars, optimizerVars, authVars, keptVars, recallVars>>

SpecStatus == Init /\ [][NextStatus]_vars

\* the shared limiter after import: the seeded sources with their default
\* configurations, no request made
InitShared ==
    /\ ChainQuiet
    /\ AdminQuiet
    /\ SharedImported
    /\ FactoryInit
    /\ RecallQuiet
    /\ KeptQuiet
    /\ AuthQuiet
    /\ OptimizerQuiet
    /\ ReportQuiet
    /\ CuratorQuiet
    /\ LimiterInit
    /\ config = [s \in SourceNames |-> IF s \in Sources THEN DefaultConfig(s) ELSE NoConfig]

\* the names clients of the shared limiter use
ClientSources == {"alpha_vantage", "custom_provider"}

\* the task using the shared limiter (its calls do not overlap)
Clients == {1}

\* a step of the client task inside acquire, or of the clock
ClientStep ==
    /\ \/ \E t \in Clients, name \in ClientSources, timeout \in Timeouts :
             SharedAcquire(t, name, timeout)
       \/ \E t \in Clients : EnterLock(t)
       \/ \E t \in Clients : CheckCapacity(t)
       \/ \E t \in Clients : RecordImmediately(t)
       \/ \E t \in Clients : ComputeWait(t)
       \/ \E t \in Clients : RecordAfterWait(t)
       \/ Tick
    /\ UNCHANGED sharedVars

NextShared ==
    /\ \/ ClientStep
       \/ Construct
       \/ GetRateLimiter
       \/ \E name \in ClientSources, cfg \in ClientConfigs : RegisterProvider(name, cfg)
    /\ UNCHANGED <<chainVars, adminVars, factoryVars, curatorVars, reportVars, optimizerVars, authVars, keptVars, recallVars>>

SpecShared == InitShared /\ [][NextShared]_vars

\* one call of the options filter
InitCurate ==
    ChainQuiet /\ LimiterQuiet /\ AdminQuiet /\ SharedImported /\ FactoryInit /\ RecallQuiet /\ KeptQuiet /\ AuthQuiet /\ OptimizerQuiet /\ ReportQuiet /\ CuratorInit

NextCurate ==
    /\ FilterProfessionalOptions
    /\ UNCHANGED <<chainVars, limiterVars, adminVars, sharedVars, factoryVars, reportVars, optimizerVars, authVars, keptVars, recallVars>>

SpecCurate == InitCurate /\ [][NextCurate]_vars

\* one call of the RSI optimizer
InitRsi == ChainQuiet /\ LimiterQuiet /\ AdminQuiet /\ SharedImported /\ FactoryInit /\ RecallQuiet /\ KeptQuiet /\ AuthQuiet /\ OptimizerQuiet /\ ReportQuiet /\ RsiInit

NextRsi ==
    /\ OptimizeRsiData
    /\ UNCHANGED <<chainVars, limiterVars, adminVars, sharedVars, factoryVars, reportVars, optimizerVars, authVars, keptVars, recallVars>>

SpecRsi == InitRsi /\ [][NextRsi]_vars

\* one call of the MACD optimizer
InitMacd == ChainQuiet /\ LimiterQuiet /\ AdminQuiet /\ SharedImported /\ FactoryInit /\ RecallQuiet /\ KeptQuiet /\ AuthQuiet /\ OptimizerQuiet /\ ReportQuiet /\ MacdInit

NextMacd ==
    /\ OptimizeMacdData
    /\ UNCHANGED <<chainVars, limiterVars, adminVars, sharedVars, factoryVars, reportVars, optimizerVars, authVars, keptVars, recallVars>>

SpecMacd == InitMacd /\ [][NextMacd]_vars

\* one call of optimize_options_data
InitOptimize ==
    ChainQuiet /\ LimiterQuiet /\ AdminQuiet /\ SharedImported /\ FactoryInit /\ RecallQuiet /\ KeptQuiet /\ AuthQuiet /\ ReportQuiet /\ CuratorQuiet /\ OptimizerInit

NextOptimize ==
    /\ OptimizeOptionsData
    /\ UNCHANGED <<chainVars, limiterVars, adminVars, sharedVars, factoryVars, reportVars,
                   curatorVars,
                   authVars,
                   keptVars,
                   recallVars>>

SpecOptimize == InitOptimize /\ [][NextOptimize]_vars

\* one RobinhoodProvider whose authentication is ensured again and again
InitAuth ==
    /\ ChainQuiet /\ LimiterQuiet /\ AdminQuiet /\ SharedImported
    /\ FactoryInit
    /\ RecallQuiet
    /\ KeptQuiet
    /\ ReportQuiet /\ OptimizerQuiet /\ CuratorQuiet
    /\ AuthInit

NextAuth ==
    /\ \/ EnsureAuthenticated
       \/ \E answer \in LoginOutcome : Login(answer)
       \/ Backoff
       \/ CleanupSession
       \/ \E h \in {1, AUTH_TIMEOUT_HOURS - 1} : HoursPass(h)
    /\ UNCHANGED <<chainVars, limiterVars, adminVars, sharedVars, factoryVars, reportVars,
                   curatorVars, optimizerVars,
                   keptVars,
                   recallVars>>

SpecAuth == InitAuth /\ [][NextAuth]_vars

\* options curation: one call of either of the two functions that curate a
\* chain
InitCuration ==
    \/ InitCurate /\ OptimizerQuiet
    \/ InitOptimize

NextCuration == NextCurate \/ NextOptimize

SpecCuration == InitCuration /\ [][NextCuration]_vars

\* the provider factory used by the services
InitFactory ==
    ChainQuiet /\ LimiterQuiet /\ AdminQuiet /\ SharedImported /\ FactoryInit /\ RecallQuiet /\ KeptQuiet /\ AuthQuiet /\ OptimizerQuiet /\ ReportQuiet /\ CuratorQuiet

NextFactory ==
    /\ \/ \E name \in FactoryNames, cls \in Classes : FactoryRegister(name, cls)
       \/ \E name \in FactoryNames, args \in CtorArgs : CreateProvider(name, args)
       \/ \E name \in FactoryNames, args \in CtorArgs : GetProvider(name, args)
       \/ \E name \in FactoryNames : GetProviderCapabilities(name)
       \/ ClearCache
       \/ Reset
    /\ UNCHANGED <<chainVars, limiterVars, adminVars, sharedVars, curatorVars, reportVars, optimizerVars, authVars, keptVars, recallVars>>

SpecFactory == InitFactory /\ [][NextFactory]_vars

\* the client remembers, per name, the instance the latest create_provider
\* returned to it or to the get_provider that called it (line 44), and
\* forgets all of them when it calls clear_cache or reset
Remember ==
    last_created' =
        IF factory_call'.op \in {"clear_cache", "reset"}
        THEN [n \in FactoryNames |-> NoInstance]
        ELSE IF /\ factory_call'.op \in {"create_provider", "get_provider"}
                /\ factory_call'.raised = ""
                /\ created' = created + 1
        THEN [last_created EXCEPT ![factory_call'.name] = factory_call'.returned]
        ELSE last_created

\* the factory used by a client that remembers what create_provider returned
NextRecall ==
    /\ \/ \E name \in FactoryNames, cls \in Classes : FactoryRegister(name, cls)
       \/ \E name \in FactoryNames, args \in CtorArgs : CreateProvider(name, args)
       \/ \E name \in FactoryNames, args \in CtorArgs : GetProvider(name, args)
       \/ \E name \in FactoryNames : GetProviderCapabilities(name)
       \/ ClearCache
       \/ Reset
    /\ Remember
    /\ UNCHANGED <<chainVars, limiterVars, adminVars, sharedVars, curatorVars, reportVars,
                   optimizerVars, authVars, keptVars>>

SpecRecall == InitFactory /\ [][NextRecall]_vars

\* one chain used by two tasks whose execute calls overlap in time
InitOverlap == Init /\ Len(providers) <= MaxSharedChain

\* the task of caller c is not running: it is outside execute, or suspended
\* in one of the awaits of execute (health_check, the operation, the
\* inter-attempt sleep).  Between two awaits a task runs without
\* interruption, so another task takes a step only when every other task
\* is at such a point.
Suspended(c) ==
    \/ pc[c] \in {"idle", "call", "sleep", "done"}
    \/ pc[c] = "loop" /\ i[c] < Len(run[c]) /\ outcome[c][i[c] + 1] # "no_method"

NextOverlap ==
    /\ \E c \in Callers :
          /\ \A other \in Callers \ {c} : Suspended(other)
          /\ \/ Execute(c)
             \/ Step(c)
    /\ UNCHANGED <<limiterVars, adminVars, sharedVars, factoryVars, curatorVars, reportVars, optimizerVars, authVars, keptVars, recallVars>>

SpecOverlap == InitOverlap /\ [][NextOverlap]_vars

\* lines 61-67: "provider_errors": self.errors puts the chain's own dict
\* into the result; the caller that was handed an all-providers-failed
\* result keeps it
KeepResult(c) ==
    IF pc[c] = "done" /\ pc'[c] = "idle" /\ "provider_errors" \in result[c].keys
    THEN /\ kept_errors' = result[c].provider_errors
         /\ kept_object' = IF isTemp[c] THEN "temporary chain" ELSE "self.errors"
    ELSE UNCHANGED keptVars

\* what the caller reads in result["provider_errors"] now
KeptProviderErrors ==
    IF kept_object = "self.errors" THEN errors ELSE kept_errors

\* a chain called again and again by a caller that keeps the failure it got
NextKeep ==
    /\ \E c \in Sequential :
          /\ \/ Execute(c)
             \/ Step(c)
          /\ KeepResult(c)
    /\ UNCHANGED <<limiterVars, adminVars, sharedVars, factoryVars, curatorVars, reportVars,
                   optimizerVars, authVars,
                   recallVars>>

SpecKeep == InitOverlap /\ [][NextKeep]_vars

\* one source's limiter, used by concurrent tasks
InitLimiter ==
    /\ ChainQuiet
    /\ AdminQuiet
    /\ SharedImported
    /\ FactoryInit
    /\ RecallQuiet
    /\ KeptQuiet
    /\ AuthQuiet
    /\ OptimizerQuiet
    /\ ReportQuiet
    /\ CuratorQuiet
    /\ LimiterInit
    /\ \A s \in SourceNames \ {"alpha_vantage"} :
          config[s] = [requests_per_minute |-> 0, requests_per_day |-> 0]

NextLimiter ==
    /\ \/ \E t \in Tasks, timeout \in Timeouts : Acquire(t, "alpha_vantage", timeout)
       \/ \E t \in Tasks : EnterLock(t)
       \/ \E t \in Tasks : CheckCapacity(t)
       \/ \E t \in Tasks : RecordImmediately(t)
       \/ \E t \in Tasks : ComputeWait(t)
       \/ \E t \in Tasks : RecordAfterWait(t)
       \/ Tick
    /\ UNCHANGED <<chainVars, adminVars, sharedVars, factoryVars, curatorVars, reportVars, optimizerVars, authVars, keptVars, recallVars>>

SpecLimiter == InitLimiter /\ [][NextLimiter]_vars

\* one source's limiter with both windows configured, the per-minute one
\* full after a single request so that later callers sleep
InitCancel ==
    /\ InitLimiter
    /\ config["alpha_vantage"] = [requests_per_minute |-> 1, requests_per_day |-> MaxCap]

\* one source's limiter, used by concurrent tasks that may be cancelled
NextCancel ==
    /\ \/ \E t \in Tasks, timeout \in Timeouts : Acquire(t, "alpha_vantage", timeout)
       \/ \E t \in Tasks : EnterLock(t)
       \/ \E t \in Tasks : CheckCapacity(t)
       \/ \E t \in Tasks : RecordImmediately(t)
       \/ \E t \in Tasks : ComputeWait(t)
       \/ \E t \in Tasks : RecordAfterWait(t)
       \/ \E t \in Tasks : Cancel(t)
       \/ Tick
    /\ UNCHANGED <<chainVars, adminVars, sharedVars, factoryVars, curatorVars, reportVars, optimizerVars, authVars, keptVars, recallVars>>

SpecCancel == InitCancel /\ [][NextCancel]_vars

\* two sources, each admitting one request per minute
InitSources ==
    /\ ChainQuiet /\ AdminQuiet /\ SharedImported
    /\ FactoryInit
    /\ RecallQuiet
    /\ KeptQuiet /\ AuthQuiet /\ OptimizerQuiet /\ ReportQuiet /\ CuratorQuiet
    /\ LimiterInit
    /\ \A s \in Sources : config[s] = [requests_per_minute |-> 1, requests_per_day |-> 0]
    /\ \A s \in SourceNames \ Sources :
          config[s] = [requests_per_minute |-> 0, requests_per_day |-> 0]

\* the limiters of two sources, used by concurrent tasks
NextSources ==
    /\ \/ \E t \in Tasks, s \in Sources, timeout \in Timeouts : Acquire(t, s, timeout)
       \/ \E t \in Tasks : EnterLock(t)
       \/ \E t \in Tasks : CheckCapacity(t)
       \/ \E t \in Tasks : RecordImmediately(t)
       \/ \E t \in Tasks : ComputeWait(t)
       \/ \E t \in Tasks : RecordAfterWait(t)
       \/ \E t \in Tasks : Cancel(t)
       \/ Tick
    /\ UNCHANGED <<chainVars, adminVars, sharedVars, factoryVars, curatorVars, reportVars,
                   optimizerVars, authVars, keptVars,
                   recallVars>>

SpecSources == InitSources /\ [][NextSources]_vars

\* one source's limiter used by concurrent tasks and asked for its status
InitReport ==
    /\ ChainQuiet
    /\ AdminQuiet
    /\ SharedImported
    /\ FactoryInit
    /\ RecallQuiet
    /\ KeptQuiet
    /\ AuthQuiet
    /\ OptimizerQuiet
    /\ CuratorQuiet
    /\ ReportQuiet
    /\ LimiterInit
    /\ \A s \in SourceNames \ {"alpha_vantage"} :
          config[s] = [requests_per_minute |-> 0, requests_per_day |-> 0]

NextReport ==
    /\ \/ /\ \/ \E t \in Tasks : Acquire(t, "alpha_vantage", NoTimeout)
             \/ \E t \in Tasks : EnterLock(t)
             \/ \E t \in Tasks : CheckCapacity(t)
             \/ \E t \in Tasks : RecordImmediately(t)
             \/ \E t \in Tasks : ComputeWait(t)
             \/ \E t \in Tasks : RecordAfterWait(t)
             \/ Tick
          /\ UNCHANGED reportVars
       \/ GetStatus("alpha_vantage")
    /\ UNCHANGED <<chainVars, adminVars, sharedVars, factoryVars, curatorVars, optimizerVars, authVars, keptVars, recallVars>>

SpecReport == InitReport /\ [][NextReport]_vars

\* the clock advances for as long as a call is to be made or a sleeper is
\* to be woken
Advance ==
    /\ \/ time < MaxTime
       \/ \E t \in Tasks : tpc[t] = "sleeping" /\ time < twake[t]
    /\ time' = time + 1
    /\ UNCHANGED <<config, minute_requests, daily_requests, lock, tpc, tsource,
                   ttimeout, twake, tresult, calls>>

\* one source's limiter used by concurrent tasks, no caller cancelled
NextWait ==
    /\ \/ \E t \in Tasks, timeout \in Timeouts : Acquire(t, "alpha_vantage", timeout)
       \/ \E t \in Tasks : EnterLock(t)
       \/ \E t \in Tasks : CheckCapacity(t)
       \/ \E t \in Tasks : RecordImmediately(t)
       \/ \E t \in Tasks : ComputeWait(t)
       \/ \E t \in Tasks : RecordAfterWait(t)
       \/ Advance
    /\ UNCHANGED <<chainVars, adminVars, sharedVars, factoryVars, curatorVars, reportVars, optimizerVars, authVars, keptVars, recallVars>>

\* time advances, and the event loop resumes a task whose sleep is over
WaitFairness ==
    /\ WF_vars(Advance /\ UNCHANGED <<chainVars, adminVars, sharedVars, factoryVars,
                                      curatorVars,
                                      reportVars,
                                      optimizerVars,
                                      authVars,
                                      keptVars,
                                      recallVars>>)
    /\ \A t \in Tasks :
          WF_vars(RecordAfterWait(t) /\ UNCHANGED <<chainVars, adminVars, sharedVars,
                                                    factoryVars, curatorVars,
                                                    reportVars,
                                                    optimizerVars,
                                                    authVars,
                                                    keptVars,
                                                    recallVars>>)

SpecWait == InitCancel /\ [][NextWait]_vars /\ WaitFairness

(***************************************************************************)
(* Properties of ProviderChain                                             *)
(***************************************************************************)
\* the provider exposes the operation, passes health_check and its
\* operation call returns a dict
ReturnsPayload(o) == o \in {"data", "error_payload"}

\* execute returned a dict produced by a provider
IsSuccess(c) == pc[c] = "done" /\ "provider" \in result[c].keys

\* execute returned the aggregate all-providers-failed dict
IsAllFailed(c) == pc[c] = "done" /\ "provider_errors" \in result[c].keys

\* the providers at the given 1-based positions of the executed chain
Untouched(c, positions) ==
    \A j \in positions : healthCalls[c][run[c][j]] = 0 /\ opCalls[c][run[c][j]] = 0

\* C1: when some provider of the chain exposes the operation, passes
\* health_check and returns a payload, execute returns the payload of the
\* first such provider with `provider` set to its name, and no provider
\* after it is health-checked or called; the aggregate failure is returned
\* only when every provider was reached and none of them returned.
C1_FirstSuccessWins ==
    \A c \in Callers :
        /\ \A k \in 1..Len(outcome[c]) :
              ReturnsPayload(outcome[c][k]) =>
                  /\ \A j \in 1..(k - 1) : ~ReturnsPayload(outcome[c][j])
                  /\ Untouched(c, (k + 1)..Len(run[c]))
                  /\ pc[c] = "done" =>
                        /\ IsSuccess(c)
                        /\ result[c].provider = run[c][k]
                        /\ Payload(outcome[c][k]).keys \subseteq result[c].keys
        /\ IsSuccess(c) =>
              \E k \in 1..Len(outcome[c]) :
                  ReturnsPayload(outcome[c][k]) /\ result[c].provider = run[c][k]
        /\ IsAllFailed(c) =>
              /\ Len(outcome[c]) = Len(run[c])
              /\ \A k \in 1..Len(outcome[c]) : ~ReturnsPayload(outcome[c][k])

\* C1 witness: the first provider fails, the second returns a payload and a
\* third provider of the chain was never touched
C1_Witness ==
    \E c \in Callers :
        /\ IsSuccess(c)
        /\ Len(run[c]) = 3
        /\ result[c].provider = run[c][2]
        /\ healthCalls[c][run[c][1]] = 1
        /\ Untouched(c, {3})

\* C4: a provider whose operation returns a failure payload (a dict with
\* "error") is recorded in the errors map and is not the provider the
\* returned result is attributed to.
C4_FailurePayloadRecorded ==
    \A c \in Callers :
        pc[c] = "done" =>
            \A k \in 1..Len(outcome[c]) :
                outcome[c][k] = "error_payload" =>
                    /\ DictHas(Errs(c), run[c][k])
                    /\ ~(IsSuccess(c) /\ result[c].provider = run[c][k])

C6_FallbackUsed ==
    \A c \in Callers :
        IsSuccess(c) =>
            (result[c].fallback_used = FALSE <=> result[c].provider = Head(run[c]))

\* C6 witness: under a filter the second provider of the original chain is
\* the first of the sub-chain and succeeds, and a success of the provider
\* after it is a fallback
C6_Witness ==
    \E c \in Callers :
        /\ IsSuccess(c)
        /\ required[c] # NoFilter
        /\ Len(providers) = 3
        /\ run[c] = <<providers[2], providers[3]>>
        /\ result[c].provider = providers[3]
        /\ result[c].fallback_used = TRUE

\* C7: when no provider succeeds execute returns the aggregate failure;
\* its provider_errors holds exactly one non-empty reason for each provider
\* of the chain and total_providers is the chain length.
C7_AggregateFailure ==
    \A c \in Callers :
        /\ (pc[c] = "done" /\ required[c] = NoFilter
             /\ \A k \in 1..Len(outcome[c]) : ~ReturnsPayload(outcome[c][k]))
              => IsAllFailed(c)
        /\ IsAllFailed(c) =>
              /\ result[c].total_providers = Len(run[c])
              /\ DictKeys(result[c].provider_errors) = run[c]
              /\ \A j \in 1..Len(result[c].provider_errors) :
                     result[c].provider_errors[j].reason # ""

\* C8: execute returns either a provider's data or the aggregate
\* all-providers-failed result; a provider that lacks the operation, is
\* unhealthy or fails is recorded with a reason and the next one is tried.
C8_OnlyAggregateFailure ==
    \A c \in Callers :
        /\ \A j \in 1..i[c] : DictHas(Errs(c), run[c][j])
        /\ pc[c] = "done" =>
              \/ IsAllFailed(c)
              \/ IsSuccess(c) /\ "error" \notin result[c].keys

\* C9: within one execute call every provider is health-checked at most
\* once and called at most once, it is called only after its health_check
\* returned true, the loop makes one pass over the chain, and what an
\* earlier call left behind changes none of this: every provider the loop
\* has passed was health-checked exactly once if it exposes the operation
\* and called exactly once if its health check passed.
C9_OneAttemptPerProvider ==
    \A c \in Callers :
        /\ i[c] <= Len(run[c])
        /\ delays[c] <= i[c]
        /\ \A p \in Providers : healthCalls[c][p] <= 1 /\ opCalls[c][p] <= 1
        /\ \A k \in 1..Len(outcome[c]) :
              LET p == run[c][k]
                  passed == k <= i[c] \/ pc[c] \in {"sleep", "exhausted", "done"}
              IN  /\ opCalls[c][p] = 1 =>
                        healthCalls[c][p] = 1
                        /\ outcome[c][k] \notin {"no_method", "unhealthy", "health_raises"}
                  /\ passed =>
                        /\ healthCalls[c][p] = (IF outcome[c][k] = "no_method" THEN 0 ELSE 1)
                        /\ opCalls[c][p] =
                              (IF outcome[c][k] \in {"no_method", "unhealthy", "health_raises"}
                               THEN 0 ELSE 1)
        /\ Untouched(c, (Len(outcome[c]) + 1)..Len(run[c]))

\* C9 witness: a provider that an earlier execute call recorded as failed
\* is attempted again, once, by a later call and succeeds
C9_Witness ==
    \E c \in Callers :
        /\ IsSuccess(c)
        /\ isTemp[c]
        /\ DictHas(errors, result[c].provider)
        /\ opCalls[c][result[c].provider] = 1
        /\ result[c].fallback_used

\* C10: when no provider of the chain declares the required capability,
\* execute_with_capability_filter returns an error result and no provider
\* is health-checked or called.
C10_NoCapableProvider ==
    \A c \in Callers :
        (/\ pc[c] # "idle"
         /\ required[c] # NoFilter
         /\ \A j \in 1..Len(providers) : required[c] \notin capabilities[providers[j]])
        => /\ pc[c] = "done"
           /\ "error" \in result[c].keys
           /\ "provider" \notin result[c].keys
           /\ \A p \in Providers : healthCalls[c][p] = 0 /\ opCalls[c][p] = 0

\* C10 witness: a filter call returned on a chain of three providers none
\* of which declares the capability
C10_Witness ==
    \E c \in Callers :
        /\ pc[c] = "done"
        /\ required[c] # NoFilter
        /\ Len(providers) = 3
        /\ \A j \in 1..3 : required[c] \notin capabilities[providers[j]]
        /\ result[c] = NoCapableResult

\* positions of the chain whose provider declares capability cap
CapablePositions(cap) == {j \in 1..Len(providers) : cap \in capabilities[providers[j]]}

\* the chain made of the providers declaring cap, in their original order
SubChain(cap) ==
    [k \in 1..Cardinality(CapablePositions(cap)) |->
        providers[CHOOSE j \in CapablePositions(cap) :
                     Cardinality({m \in CapablePositions(cap) : m < j}) = k - 1]]

\* providers lacking the required capability are never health-checked or called
LackingUntouched(c) ==
    \A p \in Providers :
        required[c] \notin capabilities[p] => healthCalls[c][p] = 0 /\ opCalls[c][p] = 0

\* C11 as stated: a filter call returns exactly what execute returns on the
\* chain of the providers declaring the capability, in their original
\* order, whatever that chain is (the empty one included); providers lacking
\* the capability are never health-checked or called.
C11_FilterIsExecuteOnSubChain ==
    \A c \in Callers :
        (pc[c] = "done" /\ required[c] # NoFilter) =>
            /\ result[c] = ExecuteResult(SubChain(required[c]), outcome[c])
            /\ LackingUntouched(c)

\* C11 amended: when at least one provider declares the capability, a
\* filter call executes and returns exactly what execute returns on the
\* chain of the providers declaring it, in their original relative order;
\* when none does it returns the no-capable-providers error, which is not
\* the aggregate failure execute returns on an empty chain.  Providers
\* lacking the capability are never health-checked or called, and the
\* provider list of the original chain never changes.
C11_FilterIsExecuteOnNonEmptySubChain ==
    /\ [](\A c \in Callers :
            /\ (pc[c] # "idle" /\ required[c] # NoFilter) =>
                  /\ run[c] = SubChain(required[c])
                  /\ LackingUntouched(c)
            /\ (pc[c] = "done" /\ required[c] # NoFilter) =>
                  IF SubChain(required[c]) = <<>>
                  THEN /\ result[c] = NoCapableResult
                       /\ result[c] # ExecuteResult(<<>>, <<>>)
                  ELSE result[c] = ExecuteResult(SubChain(required[c]), outcome[c]))
    /\ [][providers' = providers]_vars

\* C11 witness: of three providers the second lacks the capability; the
\* first fails, the third succeeds as the fallback of the sub-chain, and the
\* second was never touched
C11_Witness ==
    \E c \in Callers :
        /\ pc[c] = "done"
        /\ required[c] # NoFilter
        /\ Len(providers) = 3
        /\ SubChain(required[c]) = <<providers[1], providers[3]>>
        /\ result[c].provider = providers[3]
        /\ result[c].failed_providers = <<providers[1]>>
        /\ healthCalls[c][providers[2]] = 0

\* the providers that failed during the call of c, in attempt order: those
\* the loop reached that did not return a payload
FailedDuringCall(c) ==
    SelectSeq([k \in 1..Len(outcome[c]) |-> k], LAMBDA k : ~ReturnsPayload(outcome[c][k]))

\* C14: two execute calls overlapping in time on the same chain do not
\* interfere: the failed_providers of a success and the provider_errors of
\* an aggregate failure name exactly the providers that failed during that
\* call.
C14_OverlappingCallsIndependent ==
    \A c \in Callers :
        /\ (IsSuccess(c) /\ result[c].fallback_used) =>
              result[c].failed_providers =
                  [j \in 1..Len(FailedDuringCall(c)) |-> run[c][FailedDuringCall(c)[j]]]
        /\ IsAllFailed(c) =>
              DictKeys(result[c].provider_errors) =
                  [j \in 1..Len(FailedDuringCall(c)) |-> run[c][FailedDuringCall(c)[j]]]

\* the positions of `names` holding the first occurrence of a name that
\* some provider of `chain` has
MovedPositions(chain, names) ==
    {k \in 1..Len(names) :
        /\ \E j \in 1..Len(chain) : chain[j] = names[k]
        /\ \A m \in 1..(k - 1) : names[m] # names[k]}

\* the providers named in `names`, in the order `names` gives them
Moved(chain, names) ==
    [k \in 1..Cardinality(MovedPositions(chain, names)) |->
        names[CHOOSE j \in MovedPositions(chain, names) :
                 Cardinality({m \in MovedPositions(chain, names) : m < j}) = k - 1]]

\* the providers not named in `names`, in their original relative order
Remaining(chain, names) ==
    SelectSeq(chain, LAMBDA p : \A k \in 1..Len(names) : names[k] # p)

\* C15: on a chain with unique provider names, reorder_by_priority(names)
\* yields the providers whose name appears in names, in the order names
\* gives them (names no provider has are ignored), followed by all the
\* other providers in their original relative order; the chain stays a
\* permutation of the original one.
C15_StableReorder ==
    /\ [](/\ \A j, k \in 1..Len(providers) : providers[j] = providers[k] => j = k
          /\ {providers[j] : j \in 1..Len(providers)} = 1..Len(providers))
    /\ [][providers' = Moved(providers, priority_order')
                          \o Remaining(providers, priority_order')]_vars

\* C15 witness: the chain [1, 2, 3] reordered with [2, 1] is [2, 1, 3]
C15_Witness ==
    /\ priority_order = <<2, 1>>
    /\ providers = <<2, 1, 3>>

\* C16: get_chain_status never raises; it probes every provider of the
\* chain, in chain order, and returns total_providers equal to the chain
\* length and healthy_providers equal to the number of providers whose
\* health_check returned true, a provider whose probe raised counting as
\* unhealthy.
C16_ChainStatusAggregate ==
    /\ spc # "raised"
    /\ Len(probes) <= Len(providers)
    /\ [j \in 1..Len(status) |-> status[j].name] = SubSeq(providers, 1, Len(probes))
    /\ spc = "done" =>
          /\ Len(probes) = Len(providers)
          /\ statusResult.keys = {"chain_status", "total_providers", "healthy_providers"}
          /\ statusResult.total_providers = Len(providers)
          /\ statusResult.healthy_providers =
                 Cardinality({k \in 1..Len(probes) : probes[k] = "healthy"})

\* C16 witness: of three providers the first probe raises, the second
\* returns false and the third returns true; the aggregate counts one
\* healthy provider out of three
C16_Witness ==
    /\ spc = "done"
    /\ probes = <<"raises", "unhealthy", "healthy">>
    /\ statusResult.total_providers = 3
    /\ statusResult.healthy_providers = 1

(***************************************************************************)
(* Properties of SharedRateLimiter                                         *)
(***************************************************************************)
\* C17: acquire for a name with no registered configuration returns
\* granted at once, whatever the timeout: the caller is never suspended, no
\* limiter is created for the name and no timestamp is recorded for it.
C17_UnregisteredUnthrottled ==
    /\ \A t \in Tasks :
          tsource[t] \notin provider_limiters =>
              tpc[t] = "idle" /\ tresult[t] = "granted_unregistered"
    /\ \A name \in SourceNames \ provider_limiters :
          /\ config[name] = NoConfig
          /\ minute_requests[name] = <<>>
          /\ daily_requests[name] = <<>>
          /\ lock[name] = 0

\* C17 witness: a call with timeout 0 on the unregistered source was
\* granted after two earlier calls, while the seeded source has a recorded
\* request
C17_Witness ==
    \E t \in Tasks :
        /\ "custom_provider" \notin provider_limiters
        /\ tsource[t] = "custom_provider"
        /\ ttimeout[t] = 0
        /\ tresult[t] = "granted_unregistered"
        /\ tpc[t] = "idle"
        /\ calls = 3
        /\ minute_requests["alpha_vantage"] # <<>>

\* the timestamps of window `old` that have not aged out are still in `new`
FreshKept(old, new, span) ==
    \A j \in 1..Len(old) : old[j] >= time - span => \E k \in 1..Len(new) : new[k] = old[j]

\* C18: the shared limiter is one object, seeded once: the constructor and
\* get_rate_limiter always return that object, and no step (constructing
\* again and register_provider for a registered source in particular)
\* replaces the configuration of a registered source, unregisters it, or
\* drops a recorded timestamp that has not aged out.
C18_SingletonSeededOnce ==
    /\ [](/\ instance = rate_limiter
          /\ instance # NoObject
          /\ initialized
          /\ Sources \subseteq provider_limiters
          /\ shared_call.op \in {"construct", "get_rate_limiter"} =>
                 shared_call.object = rate_limiter)
    /\ [][/\ instance' = instance
           /\ rate_limiter' = rate_limiter
           /\ \A s \in provider_limiters :
                 /\ s \in provider_limiters'
                 /\ config'[s] = config[s]
                 /\ FreshKept(minute_requests[s], minute_requests'[s], Minute)
                 /\ FreshKept(daily_requests[s], daily_requests'[s], Day)]_vars

\* C18 witness: register_provider was called for the registered source
\* custom_provider with another configuration; its configuration is the
\* earlier one and its recorded timestamp is still there
C18_Witness ==
    /\ shared_call.op = "register_provider"
    /\ shared_call.name = "custom_provider"
    /\ "custom_provider" \in provider_limiters
    /\ shared_call.config # config["custom_provider"]
    /\ minute_requests["custom_provider"] # <<>>

C20_GetProviderCached ==
    /\ []((factory_call.op = "get_provider" /\ factory_call.raised = "") =>
             (/\ factory_call.returned # NoInstance
              /\ factory_instances[factory_call.name] = factory_call.returned))
    /\ [][(/\ factory_call'.op = "get_provider"
           /\ factory_instances[factory_call'.name] # NoInstance)
          => (/\ factory_call'.raised = ""
              /\ factory_call'.returned = factory_instances[factory_call'.name])]_vars
    /\ [][(factory_call'.op \in {"get_provider", "register_provider"})
          => (\A n \in FactoryNames :
                 (factory_instances[n] # NoInstance)
                 => (factory_instances'[n] = factory_instances[n]))]_vars

\* C20 witness: get_provider returned the cached instance although the
\* call carried other arguments than the ones the instance was created
\* with and the name has been registered with another class since
C20_Witness ==
    /\ factory_call.op = "get_provider"
    /\ factory_call.returned # NoInstance
    /\ factory_call.returned.args # factory_call.args
    /\ factory_call.returned.class # factory_providers[factory_call.name]

\* C21: every successful create_provider call returns an instance that did
\* not exist before the call: no instance cached or returned so far has an
\* identity beyond the number of instances made, and the instance a
\* successful create_provider returns has the next identity; it replaces
\* whatever the cache held for the name.
C21_CreateAlwaysNew ==
    /\ [](/\ \A n \in FactoryNames : factory_instances[n].id <= created
          /\ factory_call.returned.id <= created
          /\ factory_call.temp.id <= created)
    /\ [][(factory_call'.op = "create_provider" /\ factory_call'.raised = "")
          => (/\ factory_call'.returned.id = created + 1
              /\ created' = created + 1
              /\ factory_call'.returned.class = factory_providers[factory_call'.name]
              /\ factory_call'.returned.args = factory_call'.args
              /\ factory_instances'[factory_call'.name] = factory_call'.returned)]_vars

\* C21 witness: create_provider succeeded after an instance had already
\* been made; it returned a second, other instance, now the cached one
C21_Witness ==
    /\ factory_call.op = "create_provider"
    /\ factory_call.raised = ""
    /\ factory_call.returned.id = 2
    /\ factory_instances[factory_call.name] = factory_call.returned

\* a step that misuses the registry: register_provider with a class that
\* does not inherit from BaseProvider, or create_provider, get_provider or
\* get_provider_capabilities for a name that is not registered
MisuseStep ==
    \/ /\ factory_call'.op = "register_provider"
       /\ factory_call'.class \notin ProviderClasses
    \/ /\ factory_call'.op \in {"create_provider", "get_provider",
                                 "get_provider_capabilities"}
       /\ factory_providers[factory_call'.name] = NoClass

\* C22: registry misuse fails without side effects: a name that is not
\* registered has no cached instance, and a misusing call raises (ValueError),
\* returns nothing, makes no instance and leaves the registrations and the
\* instance cache as they were.
C22_MisuseFailsWithoutEffect ==
    /\ [](\A n \in FactoryNames :
             factory_providers[n] = NoClass => factory_instances[n] = NoInstance)
    /\ [][MisuseStep
          => (/\ factory_call'.raised = "ValueError"
              /\ factory_call'.returned = NoInstance
              /\ factory_call'.temp = NoInstance
              /\ factory_call'.caps = {}
              /\ created' = created
              /\ factory_providers' = factory_providers
              /\ factory_instances' = factory_instances)]_vars

\* C22 witness: get_provider_capabilities failed for a name that is not
\* registered while another name is registered and has a cached instance
C22_Witness ==
    /\ factory_call.op = "get_provider_capabilities"
    /\ factory_call.raised = "ValueError"
    /\ factory_providers[factory_call.name] = NoClass
    /\ \E n \in FactoryNames : factory_instances[n] # NoInstance

\* C23: reset() leaves no registered name and no cached instance;
\* clear_cache() leaves no cached instance and the registrations as they
\* were; and while a name is not registered, create_provider and
\* get_provider for it fail.
C23_ResetAndClearCache ==
    /\ [][factory_call'.op = "reset"
          => (/\ factory_call'.raised = ""
              /\ \A n \in FactoryNames :
                    factory_providers'[n] = NoClass /\ factory_instances'[n] = NoInstance)]_vars
    /\ [][factory_call'.op = "clear_cache"
          => (/\ factory_call'.raised = ""
              /\ \A n \in FactoryNames : factory_instances'[n] = NoInstance
              /\ factory_providers' = factory_providers)]_vars
    /\ [][(/\ factory_call'.op \in {"create_provider", "get_provider"}
           /\ factory_providers[factory_call'.name] = NoClass)
          => (factory_call'.raised # "" /\ factory_call'.returned = NoInstance)]_vars

\* C23 witness: instances had been made, so names had been registered, yet
\* no name is registered now and get_provider has just failed: a reset lies
\* in between
C23_Witness ==
    /\ factory_call.op = "get_provider"
    /\ factory_call.raised = "ValueError"
    /\ created > 0
    /\ \A n \in FactoryNames : factory_providers[n] = NoClass

\* C24: get_provider_capabilities leaves the registrations and the instance
\* cache unchanged and returns the capability values of the registered
\* class; the instance it builds is a new one that is not cached, an
\* instance enters the cache only in the create_provider or get_provider
\* call that made and returned it, and get_provider returns what the cache
\* holds, so the temporary instance is never returned later and an
\* instance cached before the call is the one get_provider returns after it.
C24_CapabilitiesLeaveCache ==
    /\ [](\A n \in FactoryNames : factory_instances[n].id <= created)
    /\ []((factory_call.op = "get_provider" /\ factory_call.raised = "")
           => factory_call.returned = factory_instances[factory_call.name])
    /\ [][factory_call'.op = "get_provider_capabilities"
          => (/\ factory_providers' = factory_providers
              /\ factory_instances' = factory_instances
              /\ factory_call'.returned = NoInstance
              /\ (factory_call'.raised = ""
                    => (/\ factory_call'.temp.id = created + 1
                        /\ created' = created + 1
                        /\ factory_call'.caps =
                              ClassCapabilities(factory_providers[factory_call'.name]))))]_vars
    /\ [][\A n \in FactoryNames :
             \/ factory_instances'[n] \in {NoInstance, factory_instances[n]}
             \/ (/\ factory_call'.op \in {"create_provider", "get_provider"}
                 /\ factory_call'.name = n
                 /\ factory_call'.returned = factory_instances'[n]
                 /\ factory_instances'[n].id = created + 1)]_vars

\* C24 witness: get_provider_capabilities built a second instance for a name
\* whose first instance is cached, and the cache still holds the first
C24_Witness ==
    /\ factory_call.op = "get_provider_capabilities"
    /\ factory_call.raised = ""
    /\ factory_call.temp.id = 2
    /\ factory_instances[factory_call.name].id = 1

(***************************************************************************)
(* Properties of options curation                                          *)
(***************************************************************************)
\* the call was made on strikes [100, 110, 120, 130, 140] at price 120
ExampleCall ==
    /\ fpc = "returned"
    /\ current_price = 120
    /\ [k \in 1..Len(options_before) |-> options_before[k].strike] = <<100, 110, 120, 130, 140>>

\* the contract has volume, or open interest above ten, or a bid and an ask
HasLiquidity(o) == o.volume > 0 \/ o.open_interest > 10 \/ (o.bid # None /\ o.ask # None)

PassesFirst(o) ==
    /\ o.strike \in {110, 120, 130}
    /\ o.volume > 0 \/ o.open_interest > 10 \/ (o.bid # None /\ o.ask # None /\ o.bid > 0)

\* the order of the returned list: by distance from strike 120, at equal
\* distance the first-pass contracts before the added ones, then by strike
OrderKey(o) ==
    Abs(o.strike - 120) * 1000 + (IF PassesFirst(o) THEN 0 ELSE 500) + o.strike

C26_AtMostCapPerSide ==
    fpc = "returned" => Len(professional_options) <= MaxStrikesPerType

\* C27: the filter does not mutate its input: after the call the caller's
\* list holds the same contracts in the same order as before.
C27_InputNotMutated ==
    fpc = "returned" => options = options_before

(***************************************************************************)
(* Properties of indicator curation                                        *)
(***************************************************************************)
\* the parseable values among the five most recent dates, oldest first
ChronologicalValues ==
    LET recent == SubSeq(raw_data.series,
                         IF Len(raw_data.series) > 5 THEN Len(raw_data.series) - 4 ELSE 1,
                         Len(raw_data.series))
    IN  SelectSeq(recent, LAMBDA v : v # Unparseable)

\* C28: with v the latest value and a, b, c the three most recent values in
\* chronological order, the analysis reports OVERBOUGHT when v >= 70,
\* OVERSOLD when v <= 30, BULLISH when 50 < v < 70 and BEARISH otherwise,
\* and RISING when a < b < c, FALLING when a > b > c and SIDEWAYS
\* otherwise; for the values 55, 68, 72 it reports OVERBOUGHT and RISING.
C28_RsiClassification ==
    apc = "analysed" =>
        LET values == ChronologicalValues
            n == Len(values)
            v == values[n]
            sig == current_analysis.signal
            trend == current_analysis.trend_direction
        IN  /\ current_analysis.latest_rsi = v
            /\ (sig = "OVERBOUGHT") = (v >= 70)
            /\ (sig = "OVERSOLD") = (v <= 30)
            /\ (sig = "BULLISH") = (50 < v /\ v < 70)
            /\ (sig = "BEARISH") = (30 < v /\ v <= 50)
            /\ n >= 3 =>
                  /\ (trend = "RISING") = (values[n - 2] < values[n - 1] /\ values[n - 1] < v)
                  /\ (trend = "FALLING") = (values[n - 2] > values[n - 1] /\ values[n - 1] > v)
                  /\ trend \in {"RISING", "FALLING", "SIDEWAYS"}
            /\ (n >= 3 /\ SubSeq(values, n - 2, n) = <<55, 68, 72>>)
                  => (sig = "OVERBOUGHT" /\ trend = "RISING")

\* C28 witness: the series 55, 68, 72 was analysed as OVERBOUGHT and RISING
C28_Witness ==
    /\ apc = "analysed"
    /\ raw_data.series = <<55, 68, 72>>
    /\ current_analysis.signal = "OVERBOUGHT"
    /\ current_analysis.trend_direction = "RISING"

\* the sign of a number
Sign(x) == IF x > 0 THEN 1 ELSE IF x < 0 THEN 0 - 1 ELSE 0

\* line minus signal at the k-th most recent analysed point
Diff(k) == current_analysis.recent_values[k].macd - current_analysis.recent_values[k].signal

\* the optimizer analysed at least two points
TwoPoints == apc = "analysed" /\ Len(current_analysis.recent_values) >= 2

\* the histogram value of the k-th most recent analysed point
Hist(k) == current_analysis.recent_values[k].histogram

\* STRENGTHENING and WEAKENING are reported for strictly monotonic
\* histogram values only, rising over time and falling over time
HistogramTrendRight ==
    apc = "analysed" =>
        LET trend == current_analysis.histogram_trend
            three == Len(current_analysis.recent_values) >= 3
        IN  /\ trend \in {"STRENGTHENING", "WEAKENING", "NEUTRAL"}
            /\ (trend = "STRENGTHENING") = (three /\ Hist(3) < Hist(2) /\ Hist(2) < Hist(1))
            /\ (trend = "WEAKENING") = (three /\ Hist(3) > Hist(2) /\ Hist(2) > Hist(1))

\* C29 as stated: a crossover is reported exactly when the sign of line
\* minus signal differs between the two most recent points, BULLISH or
\* BEARISH otherwise by the sign of the current difference, and the
\* histogram trend is STRENGTHENING or WEAKENING only for three strictly
\* monotonic values.
C29_CrossoverIffSignDiffers ==
    /\ HistogramTrendRight
    /\ TwoPoints =>
          LET sig == current_analysis.crossover_signal
          IN  /\ (sig \in {"BULLISH_CROSSOVER", "BEARISH_CROSSOVER"}) = (Sign(Diff(1)) # Sign(Diff(2)))
              /\ sig = "BULLISH" => Diff(1) > 0
              /\ sig = "BEARISH" => Diff(1) <= 0

\* C29 amended: BULLISH_CROSSOVER is reported exactly when the current
\* difference is positive and the previous one is not, BEARISH_CROSSOVER
\* exactly when the current difference is negative and the previous one is
\* not; otherwise BULLISH for a positive current difference and BEARISH
\* for the rest, a current difference of zero included, which is never a
\* crossover; with fewer than two points the signal is NEUTRAL.  The
\* histogram trend is STRENGTHENING or WEAKENING only for three strictly
\* monotonic values.
C29_CrossoverIntoStrictSide ==
    /\ HistogramTrendRight
    /\ apc = "analysed" =>
          LET sig == current_analysis.crossover_signal
          IN  IF Len(current_analysis.recent_values) < 2 THEN sig = "NEUTRAL"
              ELSE /\ (sig = "BULLISH_CROSSOVER") = (Diff(1) > 0 /\ Diff(2) <= 0)
                   /\ (sig = "BEARISH_CROSSOVER") = (Diff(1) < 0 /\ Diff(2) >= 0)
                   /\ (sig = "BULLISH") = (Diff(1) > 0 /\ Diff(2) > 0)
                   /\ (sig = "BEARISH") = (Diff(1) = 0 \/ (Diff(1) < 0 /\ Diff(2) < 0))

\* C29 witness: the line was above the signal and now equals it; the
\* signal reported is BEARISH, no crossover, and the histogram rose twice
C29_Witness ==
    /\ TwoPoints
    /\ Diff(2) > 0
    /\ Diff(1) = 0
    /\ current_analysis.crossover_signal = "BEARISH"
    /\ current_analysis.histogram_trend = "STRENGTHENING"

(***************************************************************************)
(* Properties of ProviderRateLimiter                                       *)
(***************************************************************************)
\* the recorded minute timestamps of source s inside the trailing
\* 60-second window (now - 60 s, now]
InTrailingMinute(s) ==
    {j \in 1..Len(minute_requests[s]) :
        /\ minute_requests[s][j] > time - Minute
        /\ minute_requests[s][j] <= time}

\* C2: for every source with a per-minute cap, the number of recorded
\* timestamps inside the trailing 60-second window never exceeds the cap,
\* whether the admissions were immediate or came after waiting.
C2_MinuteWindowCap ==
    \A s \in Sources :
        config[s].requests_per_minute > 0 =>
            Cardinality(InTrailingMinute(s)) <= config[s].requests_per_minute

\* the tasks inside the locked section of acquire on source s
InLockedSection(s) ==
    {t \in Tasks : tsource[t] = s /\ tpc[t] \in {"check", "record", "blocked", "sleeping"}}

\* C3: the capacity check and the recording of the timestamp are atomic:
\* at most one task is inside the locked section of a source, and a task
\* that observed a spare slot still finds that slot spare when it records,
\* so no two callers are admitted on the same slot.
C3_CheckThenRecordAtomic ==
    /\ \A s \in Sources :
          /\ Cardinality(InLockedSection(s)) <= 1
          /\ \A t \in InLockedSection(s) : lock[s] = t
    /\ \A t \in Tasks :
          tpc[t] = "record" =>
              CanMakeRequest(config[tsource[t]], minute_requests[tsource[t]],
                             daily_requests[tsource[t]])

\* C3 witness: two tasks race for the last spare slot of the minute window;
\* one has observed it and is about to record, the other is held at the lock
C3_Witness ==
    \E t, u \in Tasks :
        /\ t # u
        /\ tsource[t] = tsource[u]
        /\ tpc[t] = "record"
        /\ tpc[u] = "lock"
        /\ Len(minute_requests[tsource[t]]) + 1 = config[tsource[t]].requests_per_minute
        /\ Len(minute_requests[tsource[t]]) > 0

\* C12: for every timeout value, 0 included, an acquire that finds the
\* window full and whose required wait exceeds the timeout returns denied
\* at once: the caller is not suspended and no timestamp is appended to
\* either window.
C12_DeniedWithoutBlocking ==
    [][\A t \in Tasks :
          LET s == tsource[t]
              wait == GetWaitTime(config[s], CleanMinute(s, time), CleanDaily(s, time), time)
          IN  (/\ tpc[t] = "blocked"
               /\ tpc'[t] # "blocked"
               /\ ttimeout[t] # NoTimeout
               /\ wait > ttimeout[t])
              => /\ tpc'[t] = "idle"
                 /\ tresult'[t] = "denied"
                 /\ minute_requests'[s] = CleanMinute(s, time)
                 /\ daily_requests'[s] = CleanDaily(s, time)]_vars

\* a is what is left of b after entries were dropped from its front
IsSuffix(a, b) == \E k \in 0..Len(b) : a = SubSeq(b, k + 1, Len(b))

\* a step in which task t leaves acquire cancelled
CancelledStep(t) == tpc[t] \in {"lock", "sleeping"} /\ tpc'[t] = "idle" /\ tresult'[t] = "cancelled"

\* a step in which task t returns from acquire with permission
GrantedStep(t) ==
    /\ tpc[t] \in {"record", "sleeping"}
    /\ tpc'[t] = "idle"
    /\ tresult'[t] \in {"granted_immediately", "granted_after_wait"}

\* C13: a caller cancelled while suspended inside acquire appends no
\* timestamp and does not keep the lock: the step that cancels it leaves
\* both windows as they are and the lock of the source not held by it, a
\* window only ever changes by dropping entries from its front or, in the
\* step a caller is granted, by that caller's one timestamp, and the lock is
\* never held by a task that is not inside acquire, so later acquires on the
\* source proceed.
C13_CancelLeavesNoTrace ==
    /\ [](\A s \in Sources :
            lock[s] # 0 => tsource[lock[s]] = s /\ lock[s] \in InLockedSection(s))
    /\ [][\A t \in Tasks :
             CancelledStep(t) =>
                 /\ minute_requests' = minute_requests
                 /\ daily_requests' = daily_requests
                 /\ lock'[tsource[t]] # t]_vars
    /\ [][\A s \in Sources :
             \/ /\ IsSuffix(minute_requests'[s], minute_requests[s])
                /\ IsSuffix(daily_requests'[s], daily_requests[s])
             \/ \E t \in Tasks : tsource[t] = s /\ GrantedStep(t)]_vars

\* C13 witness: a task was cancelled in the middle of its sleep, with a
\* full window and the lock in its hands; the window still holds only the
\* earlier admission and another task has since taken the lock
C13_Witness ==
    \E t, u \in Tasks :
        /\ t # u
        /\ tresult[t] = "cancelled"
        /\ tpc[t] = "idle"
        /\ twake[t] > time
        /\ tsource[u] = tsource[t]
        /\ lock[tsource[t]] = u
        /\ tpc[u] = "check"
        /\ Len(minute_requests[tsource[t]]) = 1

\* the entries a step dropped from the front of window `before`
Dropped(before, after, appended) ==
    SubSeq(before, 1, Len(before) - (Len(after) - appended))

\* window `after` is window `before` with entries dropped from its front
\* that are all older than cutoff and, if appended = 1, with the instant
\* `now` added at its end
AgedOutThenAppended(before, after, appended, cutoff, now) ==
    /\ Len(after) - appended \in 0..Len(before)
    /\ after = SubSeq(before, Len(before) - (Len(after) - appended) + 1, Len(before))
                  \o (IF appended = 1 THEN <<now>> ELSE <<>>)
    /\ \A j \in 1..Len(Dropped(before, after, appended)) :
           Dropped(before, after, appended)[j] < cutoff

\* C30: in every reachable state the minute window of a source holds at
\* most requests_per_minute timestamps and its daily window at most
\* requests_per_day; in every step a window either loses entries from its
\* front that aged out of its period or, in the step in which an acquire on
\* that source returns granted, gains that one timestamp; nothing else
\* changes a window.
C30_StoredWithinCapsAppendOnGrant ==
    /\ [](\A s \in SourceNames :
            /\ config[s].requests_per_minute > 0 =>
                   Len(minute_requests[s]) <= config[s].requests_per_minute
            /\ config[s].requests_per_day > 0 =>
                   Len(daily_requests[s]) <= config[s].requests_per_day)
    /\ [][\A s \in SourceNames :
             \E appended \in {0, 1} :
                 /\ appended = 1 =>
                        \E t \in Tasks : tsource[t] = s /\ GrantedStep(t)
                 /\ AgedOutThenAppended(minute_requests[s], minute_requests'[s],
                        IF config[s].requests_per_minute > 0 THEN appended ELSE 0,
                        time - Minute, time)
                 /\ AgedOutThenAppended(daily_requests[s], daily_requests'[s],
                        IF config[s].requests_per_day > 0 THEN appended ELSE 0,
                        time - Day, time)]_vars

\* the wait acquire computes for task t on the windows as they are now
RequiredWait(t) ==
    GetWaitTime(config[tsource[t]], CleanMinute(tsource[t], time),
                CleanDaily(tsource[t], time), time)

\* what window `before` holds once the instant `now` was appended to it, if
\* the window is configured
OneMore(before, cap, now) == IF cap > 0 THEN Append(before, now) ELSE before

\* C31: an acquire that finds no capacity and whose wait does not exceed
\* its timeout, or that has no timeout, is suspended until the instant its
\* wait is over; it resumes no earlier than that, appends exactly one
\* timestamp to each configured window and to no other, and returns
\* granted; as time advances every suspended acquire returns granted.
C31_WaitThenGranted ==
    /\ [][\A t \in Tasks :
             (/\ tpc[t] = "blocked"
              /\ tpc'[t] # "blocked"
              /\ (ttimeout[t] = NoTimeout \/ RequiredWait(t) <= ttimeout[t]))
             => (/\ tpc'[t] = "sleeping"
                 /\ twake'[t] = time + RequiredWait(t)
                 /\ tresult'[t] = "none")]_vars
    /\ [][\A t \in Tasks :
             (tpc[t] = "sleeping" /\ tpc'[t] # "sleeping")
             => (/\ time >= twake[t]
                 /\ tpc'[t] = "idle"
                 /\ tresult'[t] = "granted_after_wait"
                 /\ minute_requests'[tsource[t]] =
                        OneMore(minute_requests[tsource[t]],
                                config[tsource[t]].requests_per_minute, time)
                 /\ daily_requests'[tsource[t]] =
                        OneMore(daily_requests[tsource[t]],
                                config[tsource[t]].requests_per_day, time))]_vars
    /\ \A t \in Tasks :
          (tpc[t] = "sleeping") ~> (tpc[t] = "idle" /\ tresult[t] = "granted_after_wait")

\* C31 witness: a caller with a one-tick timeout that found the window
\* full was granted after a wait of that length, and its timestamp is in
\* both windows behind the one that blocked it
C31_Witness ==
    \E t \in Tasks :
        /\ tresult[t] = "granted_after_wait"
        /\ tpc[t] = "idle"
        /\ ttimeout[t] = 1
        /\ twake[t] = time
        /\ Len(minute_requests[tsource[t]]) = 2
        /\ minute_requests[tsource[t]][2] = time
        /\ Len(daily_requests[tsource[t]]) = 2
        /\ daily_requests[tsource[t]][2] = time

\* for each window of source s that is full once a step has pruned it, the
\* time from now until its oldest entry is as old as the window is long
BlockingWaits(s) ==
    (IF /\ config[s].requests_per_minute > 0
        /\ Len(minute_requests'[s]) >= config[s].requests_per_minute
     THEN {minute_requests'[s][1] + Minute - time} ELSE {})
    \cup
    (IF /\ config[s].requests_per_day > 0
        /\ Len(daily_requests'[s]) >= config[s].requests_per_day
     THEN {daily_requests'[s][1] + Day - time} ELSE {})

\* a step in which task t, found blocked, starts its sleep
StartsSleep(t) == tpc[t] = "blocked" /\ tpc'[t] = "sleeping"

\* a step in which get_status ran: no task moved, the clock did not, and
\* the dict returned or a pruned window is new
StatusReturned ==
    /\ tpc' = tpc
    /\ time' = time
    /\ <<limit_status', minute_requests', daily_requests'>>
           # <<limit_status, minute_requests, daily_requests>>

\* a step in which get_status returned a dict reporting a wait
ReportsWait == StatusReturned /\ "wait_time_seconds" \in limit_status'.keys

\* C32 as stated: when admission is blocked, the wait acquire sleeps for
\* and the wait_time_seconds get_status reports are the minimum, over the
\* windows that are full, of the time until that window's oldest entry
\* ages out.
C32_WaitIsMinimumOverFullWindows ==
    /\ [][\A t \in Tasks :
             (StartsSleep(t) /\ BlockingWaits(tsource[t]) # {})
             => twake'[t] - time = Min(BlockingWaits(tsource[t]))]_vars
    /\ [][(ReportsWait /\ BlockingWaits(limit_status'.provider) # {})
             => limit_status'.wait_time_seconds =
                    Min(BlockingWaits(limit_status'.provider))]_vars

\* C32, amended: the wait is the maximum, over the windows that are full,
\* of the time until that window's oldest entry ages out, so that every
\* full window has room when the wait is over; it is 0 when the pruning
\* done for the computation left no window full; get_status reports a wait
\* exactly when its can_make_request is False.
C32_WaitIsMaximumOverFullWindows ==
    /\ [][\A t \in Tasks :
             StartsSleep(t)
             => twake'[t] - time =
                    (IF BlockingWaits(tsource[t]) = {} THEN 0
                     ELSE Max(BlockingWaits(tsource[t])))]_vars
    /\ [][ReportsWait
             => (/\ BlockingWaits(limit_status'.provider) # {}
                 /\ limit_status'.wait_time_seconds =
                        Max(BlockingWaits(limit_status'.provider)))]_vars
    /\ []("wait_time_seconds" \in limit_status.keys <=> 
              ("can_make_request" \in limit_status.keys /\ ~limit_status.can_make_request))

\* C32 witness: get_status reported, for a source whose two windows are
\* both full, the wait of the daily window, which is the longer one
C32_Witness ==
    /\ "wait_time_seconds" \in limit_status.keys
    /\ limit_status.minute_requests >= limit_status.minute_limit
    /\ limit_status.minute_limit > 0
    /\ limit_status.daily_requests >= limit_status.daily_limit
    /\ limit_status.daily_limit > 0
    /\ limit_status.wait_time_seconds > Minute
    /\ \E t \in Tasks : tpc[t] = "sleeping" /\ twake[t] - time > Minute

\* both windows of source s, as a step leaves them, are below their caps
HasRoom(s) ==
    /\ ~(/\ config[s].requests_per_minute > 0
         /\ Len(minute_requests'[s]) >= config[s].requests_per_minute)
    /\ ~(/\ config[s].requests_per_day > 0
         /\ Len(daily_requests'[s]) >= config[s].requests_per_day)

\* a step in which get_status returned the current counts and the caps of
\* its source and appended nothing: what it leaves of each window is what
\* was there less the entries older than the window is long
ReportsCountsAndCaps ==
    LET s == limit_status'.provider
    IN  /\ limit_status'.minute_limit = config[s].requests_per_minute
        /\ limit_status'.daily_limit = config[s].requests_per_day
        /\ limit_status'.minute_requests =
               (IF config[s].requests_per_minute > 0
                THEN Len(minute_requests'[s]) ELSE None)
        /\ limit_status'.daily_requests =
               (IF config[s].requests_per_day > 0
                THEN Len(daily_requests'[s]) ELSE None)
        /\ AgedOutThenAppended(minute_requests[s], minute_requests'[s], 0,
                               time - Minute, time)
        /\ AgedOutThenAppended(daily_requests[s], daily_requests'[s], 0,
                               time - Day, time)
        /\ config[s].requests_per_minute > 0 =>
               \A j \in 1..Len(minute_requests'[s]) :
                   minute_requests'[s][j] >= time - Minute
        /\ config[s].requests_per_day > 0 =>
               \A j \in 1..Len(daily_requests'[s]) :
                   daily_requests'[s][j] >= time - Day

\* C33 as stated: get_status reports the pruned counts and the caps and
\* appends no timestamp, and its can_make_request is true exactly when an
\* acquire issued at the same instant would be granted without waiting,
\* that is when the lock of the source is free and both windows have room.
C33_StatusPredictsAcquire ==
    [][StatusReturned =>
          /\ ReportsCountsAndCaps
          /\ limit_status'.can_make_request <=>
                 (lock[limit_status'.provider] = 0 /\ HasRoom(limit_status'.provider))]_vars

\* C33, amended: get_status reports the pruned counts and the caps and
\* appends no timestamp; its can_make_request is true exactly when both
\* windows, pruned, are below their caps, which is the test by which an
\* acquire holding the lock is granted without sleeping; the flag takes no
\* account of the lock, so it can be true while a caller suspended inside
\* acquire holds it and a new acquire has to wait.
C33_StatusReportsRoom ==
    /\ [][StatusReturned =>
             /\ ReportsCountsAndCaps
             /\ limit_status'.can_make_request <=> HasRoom(limit_status'.provider)]_vars
    /\ [][\A t \in Tasks :
             (tpc[t] = "check" /\ tpc'[t] # "check")
             => (/\ tpc'[t] \in {"record", "blocked"}
                 /\ tpc'[t] = "record" <=> HasRoom(tsource[t]))]_vars

\* C33 witness: get_status reported room in a window it has just pruned
\* while a task whose sleep is over still holds the lock of the source
C33_Witness ==
    /\ "can_make_request" \in limit_status.keys
    /\ limit_status.can_make_request
    /\ limit_status.minute_limit > 0
    /\ limit_status.minute_requests = Len(minute_requests[limit_status.provider])
    /\ lock[limit_status.provider] # 0
    /\ tpc[lock[limit_status.provider]] = "sleeping"
    /\ twake[lock[limit_status.provider]] < time

\* what a provider does when its attempt ends in an exception, raised by
\* its health check or by the operation
Raising == {"health_raises", "op_raises", "op_raises_empty"}

\* the providers of caller c's call that the loop has left behind
Passed(c) == 1..i[c]

\* C34: within execute the inter-attempt delay is taken only after an
\* attempt that failed by raising and only when another provider remains:
\* the step that takes a delay follows the exception of a provider that is
\* not the last of the chain, such an exception is always followed by the
\* delay, and at any moment of a call the delays taken are as many as the
\* providers left behind that raised, so none comes before the first
\* attempt, after an unsupported or unhealthy provider, after the last
\* provider or after a success.
C34_DelayOnlyAfterRaiseWithSuccessor ==
    /\ [](\A c \in Callers :
            pc[c] # "idle" =>
                delays[c] = Cardinality({j \in Passed(c) : outcome[c][j] \in Raising}))
    /\ [][\A c \in Callers :
             (delays'[c] # delays[c] /\ pc[c] # "idle" /\ pc'[c] # "idle")
             => (/\ delays'[c] = delays[c] + 1
                 /\ pc[c] = "sleep"
                 /\ outcome[c][i[c] + 1] \in Raising
                 /\ i[c] + 1 < Len(run[c])
                 /\ i'[c] = i[c] + 1)]_vars
    /\ [][\A c \in Callers :
             (/\ pc[c] \in {"loop", "call"}
              /\ pc'[c] \notin {"loop", "call", "idle"}
              /\ i[c] < Len(run[c])
              /\ outcome[c][i[c] + 1] \in Raising)
             => pc'[c] = (IF i[c] + 1 < Len(run[c]) THEN "sleep" ELSE "exhausted")]_vars
    /\ [](\A c \in Callers :
            /\ pc[c] = "sleep" =>
                   (outcome[c][i[c] + 1] \in Raising /\ i[c] + 1 < Len(run[c]))
            /\ pc[c] = "exhausted" =>
                   (outcome[c][i[c] + 1] \in Raising /\ i[c] + 1 = Len(run[c])))

\* C34 witness: a call on a chain of three returned the data of the third
\* provider after the first raised and the second was skipped as
\* unhealthy: one delay was taken, none after the skip or the success
C34_Witness ==
    \E c \in Callers :
        /\ pc[c] = "done"
        /\ Len(run[c]) = 3
        /\ i[c] = 2
        /\ outcome[c][1] = "op_raises"
        /\ outcome[c][2] = "unhealthy"
        /\ outcome[c][3] = "data"
        /\ delays[c] = 1

(***************************************************************************)
(* Properties of options curation, both functions                          *)
(***************************************************************************)
\* the contracts optimize_options_data returned, all expirations together
ReturnedByOptimizer ==
    UNION {{optimized[e].calls[k] : k \in 1..Len(optimized[e].calls)}
               \cup {optimized[e].puts[k] : k \in 1..Len(optimized[e].puts)} :
           e \in 1..Len(optimized)}

\* the contracts _filter_professional_options returned
ReturnedByFilter == {professional_options[k] : k \in 1..Len(professional_options)}

\* the strike lies within percent % of the price, measured from strike `from`
Within(strike, from, price, percent) == Abs(strike - from) * 100 <= percent * price

\* bid and ask both present and positive
Quoted(o) == o.bid # None /\ o.ask # None /\ o.bid > 0 /\ o.ask > 0

Centre ==
    CHOOSE strike \in {options_before[k].strike : k \in 1..Len(options_before)} :
        \A k \in 1..Len(options_before) :
            \/ Abs(strike - current_price) < Abs(options_before[k].strike - current_price)
            \/ /\ Abs(strike - current_price) = Abs(options_before[k].strike - current_price)
               /\ strike <= options_before[k].strike

\* the contract passes the first pass of the filter: within 15% of the
\* price from the centre strike, and traded, or with open interest above
\* ten, or with an ask and a positive bid
Qualifies(o) ==
    /\ Within(o.strike, Centre, current_price, 15)
    /\ o.volume > 0 \/ o.open_interest > 10 \/ (o.bid # None /\ o.ask # None /\ o.bid > 0)

SurvivingVolume(e) ==
    LET survives(o) ==
            /\ Within(o.strike, raw_options.lastTradePrice, raw_options.lastTradePrice, 15)
            /\ o.volume > 10 \/ o.openInterest > 100
    IN  SumVolume(SelectSeq(e.calls, survives)) + SumVolume(SelectSeq(e.puts, survives))

\* the entries of the chain that have a date and pass the volume floor
PassingEntries ==
    {k \in 1..Len(raw_options.contracts) :
        /\ raw_options.contracts[k].expirationDate # NoDate
        /\ SurvivingVolume(raw_options.contracts[k]) > 50}

ReturnedDates == {optimized[k].date : k \in 1..Len(optimized)}

\* C36: optimize_options_data returns at most max_expirations expirations,
\* in descending order of aggregate volume; every returned expiration is
\* one of the chain whose combined surviving volume is above the floor of
\* 50 and carries that volume; an expiration that passes the floor is
\* omitted only when max_expirations are returned, and then its volume is
\* not larger than that of any returned one.
C36_TopExpirationsByVolume ==
    opc = "optimized" =>
        /\ Len(optimized) <= max_expirations
        /\ \A k, m \in 1..Len(optimized) :
               k < m => (/\ optimized[k].total_volume >= optimized[m].total_volume
                         /\ optimized[k].date # optimized[m].date)
        /\ \A k \in 1..Len(optimized) :
               /\ optimized[k].total_volume > 50
               /\ \E a \in PassingEntries :
                      /\ raw_options.contracts[a].expirationDate = optimized[k].date
                      /\ SurvivingVolume(raw_options.contracts[a]) = optimized[k].total_volume
        /\ \A a \in PassingEntries :
               raw_options.contracts[a].expirationDate \notin ReturnedDates =>
                   /\ Len(optimized) = max_expirations
                   /\ \A k \in 1..Len(optimized) :
                          SurvivingVolume(raw_options.contracts[a]) <= optimized[k].total_volume

\* C36 witness: of three expirations above the floor the two with the
\* larger volumes were returned for max_expirations = 2, the last of the
\* chain first, and the first of the chain, with less volume, was left out
C36_Witness ==
    /\ opc = "optimized"
    /\ max_expirations = 2
    /\ Len(raw_options.contracts) = 3
    /\ PassingEntries = {1, 2, 3}
    /\ Len(optimized) = 2
    /\ optimized[1].date = raw_options.contracts[3].expirationDate
    /\ optimized[2].date = raw_options.contracts[2].expirationDate
    /\ SurvivingVolume(raw_options.contracts[1]) < optimized[2].total_volume

\* the call has finished, or none was made yet
AuthResting == auth_pc \in {"idle", "returned", "raised"}

\* authenticated no longer ago than the timeout
AuthFresh ==
    /\ authenticated
    /\ auth_timestamp # None
    /\ hours - auth_timestamp <= AUTH_TIMEOUT_HOURS

\* a step that is a call of ensure_authenticated
AuthCallStep ==
    /\ AuthResting
    /\ <<auth_pc', attempt', login_calls'>> # <<auth_pc, attempt, login_calls>>

\* a step in which self.auth.login() is called
LoginStep == login_calls' = login_calls + 1

\* C37: ensure_authenticated logs in exactly when the provider is
\* unauthenticated or its authentication is older than AUTH_TIMEOUT_HOURS, and
\* a fresh provider keeps its state and timestamp; a call makes at most
\* MAX_AUTH_RETRIES logins, every login either succeeds and ends the call
\* with the provider authenticated at the current time, or fails and leaves
\* the state alone while attempts remain, and the MAX_AUTH_RETRIES-th failure
\* raises with the provider unauthenticated and the timestamp cleared.
C37_LoginWhenStaleAtMostThreeTimes ==
    /\ [](login_calls <= MAX_AUTH_RETRIES)
    /\ [](auth_pc \in {"login", "backoff"} => ~AuthFresh /\ login_calls < MAX_AUTH_RETRIES)
    /\ [](auth_pc = "raised" => login_calls = MAX_AUTH_RETRIES)
    /\ [][(AuthCallStep /\ AuthFresh) =>
            (auth_pc' = "returned" /\ login_calls' = 0
             /\ UNCHANGED <<authenticated, auth_timestamp>>)]_vars
    /\ [][(AuthCallStep /\ ~AuthFresh) =>
            (auth_pc' = "login" /\ login_calls' = 0
             /\ UNCHANGED <<authenticated, auth_timestamp>>)]_vars
    /\ [][LoginStep =>
            (/\ auth_pc = "login"
             /\ \/ (auth_pc' = "returned" /\ authenticated' /\ auth_timestamp' = hours')
                \/ (auth_pc' \in {"login", "backoff"} /\ login_calls' < MAX_AUTH_RETRIES
                    /\ UNCHANGED <<authenticated, auth_timestamp>>)
                \/ (auth_pc' = "raised" /\ login_calls' = MAX_AUTH_RETRIES
                    /\ ~authenticated' /\ auth_timestamp' = None))]_vars
    /\ [][(auth_pc' # auth_pc /\ auth_pc' \in {"returned", "raised"}) =>
            (AuthCallStep \/ LoginStep)]_vars

\* an expired authentication was renewed by the third login of a call
C37_Witness ==
    /\ auth_pc = "returned"
    /\ login_calls = MAX_AUTH_RETRIES
    /\ authenticated
    /\ auth_timestamp = hours
    /\ hours > AUTH_TIMEOUT_HOURS


\* C38: the provider_errors of an all-providers-failed result the caller
\* holds keeps the entries it had when execute returned it, whatever is done
\* with the chain afterwards.
C38_KeptResultUnchanged ==
    kept_object # "none" => KeptProviderErrors = kept_errors

\* task t is inside acquire on source s
Acquiring(t, s) == tpc[t] # "idle" /\ tsource[t] = s

\* acquire returns to task t in this step, True or False; a cancelled task
\* leaves acquire without a return value
Completes(t) == tpc[t] # "idle" /\ tpc'[t] = "idle" /\ tresult'[t] # "cancelled"

C40_LatestCreatedIsServed ==
    /\ [](\A n \in FactoryNames :
             last_created[n] # NoInstance => factory_instances[n] = last_created[n])
    /\ [][(factory_call'.op = "create_provider" /\ factory_call'.raised = "")
          => last_created'[factory_call'.name] = factory_call'.returned]_vars
    /\ [][(factory_call'.op = "get_provider" /\ last_created[factory_call'.name] # NoInstance)
          => (/\ factory_call'.raised = ""
              /\ factory_call'.returned = last_created[factory_call'.name])]_vars
    /\ [][factory_call'.op = "register_provider"
          => factory_instances' = factory_instances]_vars

\* get_provider returned the instance of the second create_provider for the
\* name, after the name was registered again with another class
C40_Witness ==
    /\ factory_call.op = "get_provider"
    /\ factory_call.returned = last_created[factory_call.name]
    /\ factory_call.returned.id = 2
    /\ factory_providers[factory_call.name] # factory_call.returned.class

====
